---- MODULE Spec2Model ----
(***************************************************************************)
(* Model of the feedback server's dual-tier rate limiting:                 *)
(*   src/src/db.rs        check_rate_limits, record_submission,            *)
(*                        record_ip_attempt                                *)
(*   src/src/handlers.rs  get_client_ip, submit_feedback, delete_feedback  *)
(*   src/src/main.rs      configuration (trusted proxies, hard limit)      *)
(* Text is a sequence of one-character strings; a timestamp is the text    *)
(* chrono's "%Y-%m-%d %H:%M:%S" produces, kept as a sequence of numbers    *)
(* <<day, H, H, M, M, S, S>> that SQLite compares field by field.          *)
(***************************************************************************)
EXTENDS Integers, Sequences, FiniteSets, TLC

VARIABLES
    now,                  \* wall clock (chrono::Utc::now), in milliseconds
    ip_rate_limit_max,    \* AppState.ip_rate_limit_max
    trusted_proxy_ips,    \* AppState.trusted_proxy_ips
    admin_password,       \* AppState.admin_password
    is_default_admin_password,  \* AppState.is_default_admin_password
    discord_webhook_url,  \* AppState.discord_webhook_url is Some
    notifications,        \* the spawned notification tasks: [id, state]
    feedback,             \* table feedback: rows [id, ip_address, created_at]
    cookie_submissions,   \* table cookie_submissions: rows [cookie_id, submitted_at]
    ip_attempts,          \* table ip_attempts: rows [id, ip_address, attempted_at]
    next_id,              \* next feedback id (uuid) / ip_attempts AUTOINCREMENT id
    db_open,              \* init_database has returned the Connection
    served,               \* requests answered so far in the end-to-end scenario
    lock,                 \* holder of the DbPool mutex, Free when unlocked
    pc,                   \* position of each submit_feedback invocation
    conn_peer,            \* connection-origin address of each request
    peer_ip,              \* local peer_ip of submit_feedback
    display_ip,           \* local display_ip of submit_feedback
    cookie_id,            \* local cookie_id of submit_feedback
    decision,             \* result of check_rate_limits for the request
    response,             \* last HTTP response of each invocation
    events,               \* history: counted events (address, kind, second, row id)
    allowed_log,         \* history: the persisted submissions (device token, second)
                          \* and whether record_submission succeeded for each
    write_ok,             \* Result of the invocation's last store write ("" before any)
    in_peer, in_xff, in_xri,  \* a request handed to get_client_ip on its own
    out_ip,               \* what get_client_ip returned for it
    in_ip, in_cookie,     \* arguments handed to check_rate_limits on its own
    out_decision          \* what check_rate_limits returned, per failing query

vars == <<now, ip_rate_limit_max, trusted_proxy_ips, admin_password, is_default_admin_password,
          discord_webhook_url, notifications, feedback,
          cookie_submissions, ip_attempts, next_id, db_open, served, lock, pc, conn_peer,
          peer_ip, display_ip, cookie_id, decision, response, events, allowed_log,
          write_ok, in_peer, in_xff, in_xri, out_ip, in_ip, in_cookie, out_decision>>

\* the variables of the two stand-alone function runs
fnVars == <<in_peer, in_xff, in_xri, out_ip, in_ip, in_cookie, out_decision>>

-----------------------------------------------------------------------------
(* Bounds *)
MaxLimit == 2           \* largest hard limit handed to check_rate_limits on its own
MaxRows == 2            \* feedback rows written; attempt rows of a drawn store
MaxJumps == 2           \* clock jumps explored
MaxHdrLen == 4          \* longest X-Forwarded-For value explored
MaxEnvLen == 3          \* longest TRUSTED_PROXY_IPS value explored
MaxRetries == 5         \* requests the retrying client makes
MaxRequests == 12       \* requests made in the end-to-end scenario

(* Program constants *)
HourMs == 3600000       \* chrono::Duration::hours(1)
SoftMs == 1800000       \* chrono::Duration::minutes(30)
MAX_SERVER == 50
DefaultIpRateLimitMax == 10  \* IP_RATE_LIMIT_MAX when the variable is not set
CookieMaxAge == 3600    \* feedback_session=...; Max-Age=3600
StartClock == 82800500  \* the run starts at 23:00:00.500 of day 0

Free == 0
Reqs == {1, 2}          \* the workers running submit_feedback

-----------------------------------------------------------------------------
(* Text helpers: str::trim, str::split(',') *)

IsSpace(c) == c = " "

RECURSIVE TrimStart(_)
TrimStart(s) ==
    IF s = <<>> THEN <<>>
    ELSE IF IsSpace(Head(s)) THEN TrimStart(Tail(s)) ELSE s

RECURSIVE TrimEnd(_)
TrimEnd(s) ==
    IF s = <<>> THEN <<>>
    ELSE IF IsSpace(s[Len(s)]) THEN TrimEnd(SubSeq(s, 1, Len(s) - 1)) ELSE s

Trim(s) == TrimEnd(TrimStart(s))

\* s.split(',') : the sequence of pieces between commas (never empty)
RECURSIVE Split(_)
Split(s) ==
    IF \A i \in DOMAIN s : s[i] # ","
    THEN <<s>>
    ELSE LET k == CHOOSE i \in DOMAIN s :
                      s[i] = "," /\ \A j \in 1..(i - 1) : s[j] # ","
         IN  <<SubSeq(s, 1, k - 1)>> \o Split(SubSeq(s, k + 1, Len(s)))

\* forwarded_str.split(',').next()
SplitFirst(s) == Split(s)[1]

RECURSIVE SelectNonEmptyTrimmed(_)
SelectNonEmptyTrimmed(parts) ==
    IF parts = <<>> THEN <<>>
    ELSE LET t == Trim(Head(parts))
         IN  (IF t = <<>> THEN <<>> ELSE <<t>>) \o SelectNonEmptyTrimmed(Tail(parts))

\* An optional header / environment value
Absent == [kind |-> "absent", text |-> <<>>]
NonText == [kind |-> "bytes", text |-> <<>>]
Txt(s) == [kind |-> "text", text |-> s]

\* main.rs: TRUSTED_PROXY_IPS, unwrap_or_default, split, trim, filter
ParseTrustedProxies(env) ==
    SelectNonEmptyTrimmed(Split(IF env.kind = "text" THEN env.text ELSE <<>>))

Unknown == <<"u", "n", "k", "n", "o", "w", "n">>

\* get_client_ip as it would be if the forwarded address became the limiting key
GetClientIpForwardedKey(peer, xff, xri, trusted_proxies) ==
    LET peerIp == IF peer.kind = "text" THEN peer.text ELSE Unknown
        is_trusted_proxy ==
            \E i \in DOMAIN trusted_proxies : Trim(trusted_proxies[i]) = peerIp
        display == IF is_trusted_proxy /\ xff.kind = "text"
                   THEN Trim(SplitFirst(xff.text))
                   ELSE IF is_trusted_proxy /\ xri.kind = "text"
                        THEN Trim(xri.text)
                        ELSE peerIp
    IN  <<display, display>>

\* get_client_ip as it would be if every peer were taken for a proxy
GetClientIpTrustAll(peer, xff, xri, trusted_proxies) ==
    LET peerIp == IF peer.kind = "text" THEN peer.text ELSE Unknown
    IN  IF xff.kind = "text"
        THEN <<peerIp, Trim(SplitFirst(xff.text))>>
        ELSE IF xri.kind = "text"
             THEN <<peerIp, Trim(xri.text)>>
             ELSE <<peerIp, peerIp>>

\* get_client_ip as it would be without the trim of the first token
GetClientIpUntrimmed(peer, xff, xri, trusted_proxies) ==
    LET peerIp == IF peer.kind = "text" THEN peer.text ELSE Unknown
        is_trusted_proxy ==
            \E i \in DOMAIN trusted_proxies : Trim(trusted_proxies[i]) = peerIp
    IN  IF is_trusted_proxy
        THEN IF xff.kind = "text"
             THEN <<peerIp, SplitFirst(xff.text)>>
             ELSE IF xri.kind = "text"
                  THEN <<peerIp, Trim(xri.text)>>
                  ELSE <<peerIp, peerIp>>
        ELSE <<peerIp, peerIp>>

\* handlers.rs get_client_ip: returns <<peer_ip, display_ip>>
GetClientIp(peer, xff, xri, trusted_proxies) ==
    LET peerIp == IF peer.kind = "text" THEN peer.text ELSE Unknown
        is_trusted_proxy ==
            \E i \in DOMAIN trusted_proxies : Trim(trusted_proxies[i]) = peerIp
    IN  IF is_trusted_proxy
        THEN IF xff.kind = "text"
             THEN <<peerIp, Trim(SplitFirst(xff.text))>>
             ELSE IF xri.kind = "text"
                  THEN <<peerIp, Trim(xri.text)>>
                  ELSE <<peerIp, peerIp>>
        ELSE <<peerIp, peerIp>>

-----------------------------------------------------------------------------
(* Timestamps *)

\* format("%Y-%m-%d %H:%M:%S") of an instant given in milliseconds
FormatTs(t) ==
    LET sec == t \div 1000
        day == sec \div 86400
        r   == sec % 86400
        h   == r \div 3600
        m   == (r % 3600) \div 60
        s   == r % 60
    IN  <<day, h \div 10, h % 10, m \div 10, m % 10, s \div 10, s % 10>>

\* the comparison as it would be with >= in place of >
TextGe(a, b) ==
    \/ a = b
    \/ \E i \in 1..Len(a) :
          /\ i <= Len(b)
          /\ a[i] > b[i]
          /\ \A j \in 1..(i - 1) : a[j] = b[j]
    \/ /\ Len(a) > Len(b)
       /\ \A j \in 1..Len(b) : a[j] = b[j]

\* SQLite comparison of two TEXT values (memcmp order): a > b
TextGt(a, b) ==
    \/ \E i \in 1..Len(a) :
          /\ i <= Len(b)
          /\ a[i] > b[i]
          /\ \A j \in 1..(i - 1) : a[j] = b[j]
    \/ /\ Len(a) > Len(b)
       /\ \A j \in 1..Len(b) : a[j] = b[j]

-----------------------------------------------------------------------------
(* db.rs *)

\* check_rate_limits as it would be with the cookie check placed first
CheckRateLimitsSoftFirst(fb, att, cs, t, ip, cookie, ip_limit_max, failAt) ==
    LET cutoff1h == FormatTs(t - HourMs)
        submission_count ==
            Cardinality({r \in fb : r.ip_address = ip /\ TextGt(r.created_at, cutoff1h)})
        attempt_count ==
            Cardinality({r \in att : r.ip_address = ip /\ TextGt(r.attempted_at, cutoff1h)})
        total_count == submission_count + attempt_count
        cutoff30m == FormatTs(t - SoftMs)
        cookie_count ==
            Cardinality({r \in cs : r.cookie_id = cookie /\ TextGt(r.submitted_at, cutoff30m)})
    IN  IF failAt = 1 THEN "Err"
        ELSE IF cookie_count > 0 THEN "CookieSoftLimit"
        ELSE IF failAt = 2 \/ failAt = 3 THEN "Err"
        ELSE IF total_count >= ip_limit_max THEN "IpHardLimit"
        ELSE "None"

\* check_rate_limits as it would be if the cookie query left out cookie_id = ?1
CheckRateLimitsAnyCookie(fb, att, cs, t, ip, cookie, ip_limit_max, failAt) ==
    LET cutoff1h == FormatTs(t - HourMs)
        submission_count ==
            Cardinality({r \in fb : r.ip_address = ip /\ TextGt(r.created_at, cutoff1h)})
        attempt_count ==
            Cardinality({r \in att : r.ip_address = ip /\ TextGt(r.attempted_at, cutoff1h)})
        total_count == submission_count + attempt_count
        cutoff30m == FormatTs(t - SoftMs)
        cookie_count ==
            Cardinality({r \in cs : TextGt(r.submitted_at, cutoff30m)})
    IN  IF failAt = 1 \/ failAt = 2 THEN "Err"
        ELSE IF total_count >= ip_limit_max THEN "IpHardLimit"
        ELSE IF failAt = 3 THEN "Err"
        ELSE IF cookie_count > 0 THEN "CookieSoftLimit"
        ELSE "None"

\* check_rate_limits as it would be if the answer for an empty store were kept
CheckRateLimitsCached(fb, att, cs, t, ip, cookie, ip_limit_max, failAt) ==
    IF failAt # 0 THEN "Err"
    ELSE IF 0 >= ip_limit_max THEN "IpHardLimit"
    ELSE "None"

\* check_rate_limits as it would be with > in place of >= on the hard limit
CheckRateLimitsOverLimit(fb, att, cs, t, ip, cookie, ip_limit_max, failAt) ==
    LET cutoff1h == FormatTs(t - HourMs)
        submission_count ==
            Cardinality({r \in fb : r.ip_address = ip /\ TextGt(r.created_at, cutoff1h)})
        attempt_count ==
            Cardinality({r \in att : r.ip_address = ip /\ TextGt(r.attempted_at, cutoff1h)})
        total_count == submission_count + attempt_count
        cutoff30m == FormatTs(t - SoftMs)
        cookie_count ==
            Cardinality({r \in cs : r.cookie_id = cookie /\ TextGt(r.submitted_at, cutoff30m)})
    IN  IF failAt = 1 \/ failAt = 2 THEN "Err"
        ELSE IF total_count > ip_limit_max THEN "IpHardLimit"
        ELSE IF failAt = 3 THEN "Err"
        ELSE IF cookie_count > 0 THEN "CookieSoftLimit"
        ELSE "None"

\* check_rate_limits as it would be if only the feedback rows were counted
CheckRateLimitsNoAttempts(fb, att, cs, t, ip, cookie, ip_limit_max, failAt) ==
    LET cutoff1h == FormatTs(t - HourMs)
        submission_count ==
            Cardinality({r \in fb : r.ip_address = ip /\ TextGt(r.created_at, cutoff1h)})
        total_count == submission_count
        cutoff30m == FormatTs(t - SoftMs)
        cookie_count ==
            Cardinality({r \in cs : r.cookie_id = cookie /\ TextGt(r.submitted_at, cutoff30m)})
    IN  IF failAt = 1 \/ failAt = 2 THEN "Err"
        ELSE IF total_count >= ip_limit_max THEN "IpHardLimit"
        ELSE IF failAt = 3 THEN "Err"
        ELSE IF cookie_count > 0 THEN "CookieSoftLimit"
        ELSE "None"

\* check_rate_limits as it would be if the hourly count had no cutoff
CheckRateLimitsNoCutoff(fb, att, cs, t, ip, cookie, ip_limit_max, failAt) ==
    LET submission_count == Cardinality({r \in fb : r.ip_address = ip})
        attempt_count == Cardinality({r \in att : r.ip_address = ip})
        total_count == submission_count + attempt_count
        cutoff30m == FormatTs(t - SoftMs)
        cookie_count ==
            Cardinality({r \in cs : r.cookie_id = cookie /\ TextGt(r.submitted_at, cutoff30m)})
    IN  IF failAt = 1 \/ failAt = 2 THEN "Err"
        ELSE IF total_count >= ip_limit_max THEN "IpHardLimit"
        ELSE IF failAt = 3 THEN "Err"
        ELSE IF cookie_count > 0 THEN "CookieSoftLimit"
        ELSE "None"

\* check_rate_limits as it would be if the cookie query used the hour's cutoff
CheckRateLimitsSoftHour(fb, att, cs, t, ip, cookie, ip_limit_max, failAt) ==
    LET cutoff1h == FormatTs(t - HourMs)
        submission_count ==
            Cardinality({r \in fb : r.ip_address = ip /\ TextGt(r.created_at, cutoff1h)})
        attempt_count ==
            Cardinality({r \in att : r.ip_address = ip /\ TextGt(r.attempted_at, cutoff1h)})
        total_count == submission_count + attempt_count
        cookie_count ==
            Cardinality({r \in cs : r.cookie_id = cookie /\ TextGt(r.submitted_at, cutoff1h)})
    IN  IF failAt = 1 \/ failAt = 2 THEN "Err"
        ELSE IF total_count >= ip_limit_max THEN "IpHardLimit"
        ELSE IF failAt = 3 THEN "Err"
        ELSE IF cookie_count > 0 THEN "CookieSoftLimit"
        ELSE "None"

\* check_rate_limits; failAt names the query that fails (0: none)
CheckRateLimits(fb, att, cs, t, ip, cookie, ip_limit_max, failAt) ==
    LET cutoff1h == FormatTs(t - HourMs)
        submission_count ==
            Cardinality({r \in fb : r.ip_address = ip /\ TextGt(r.created_at, cutoff1h)})
        attempt_count ==
            Cardinality({r \in att : r.ip_address = ip /\ TextGt(r.attempted_at, cutoff1h)})
        total_count == submission_count + attempt_count
        cutoff30m == FormatTs(t - SoftMs)
        cookie_count ==
            Cardinality({r \in cs : r.cookie_id = cookie /\ TextGt(r.submitted_at, cutoff30m)})
    IN  IF failAt = 1 \/ failAt = 2 THEN "Err"
        ELSE IF total_count >= ip_limit_max THEN "IpHardLimit"
        ELSE IF failAt = 3 THEN "Err"
        ELSE IF cookie_count > 0 THEN "CookieSoftLimit"
        ELSE "None"

\* record_submission as it would be with a plain INSERT and no primary key
RecordSubmissionAppend(cs, cookie, t) ==
    cs \cup {[cookie_id |-> cookie, submitted_at |-> FormatTs(t)]}

\* record_submission as it would be if submitted_at were not the current time
RecordSubmissionEpoch(cs, cookie, t) ==
    {r \in cs : r.cookie_id # cookie}
        \cup {[cookie_id |-> cookie, submitted_at |-> FormatTs(0)]}

\* record_submission: INSERT OR REPLACE on the primary key cookie_id
RecordSubmission(cs, cookie, t) ==
    {r \in cs : r.cookie_id # cookie}
        \cup {[cookie_id |-> cookie, submitted_at |-> FormatTs(t)]}

\* record_ip_attempt as it would be with the address as the table's key
RecordIpAttemptKeyed(att, id, ip, t) ==
    {r \in att : r.ip_address # ip}
        \cup {[id |-> id, ip_address |-> ip, attempted_at |-> FormatTs(t)]}

\* record_ip_attempt as it would be if the row lost its address
RecordIpAttemptUnkeyed(att, id, ip, t) ==
    att \cup {[id |-> id, ip_address |-> Unknown, attempted_at |-> FormatTs(t)]}

\* record_ip_attempt: INSERT with a fresh AUTOINCREMENT id
RecordIpAttempt(att, id, ip, t) ==
    att \cup {[id |-> id, ip_address |-> ip, attempted_at |-> FormatTs(t)]}

\* the sweep of ip_attempts as it would be with <= in place of <
SweepAttemptsInclusive(att, t) ==
    {r \in att : ~(TextGt(FormatTs(t - HourMs), r.attempted_at)
                      \/ r.attempted_at = FormatTs(t - HourMs))}

\* the sweep of ip_attempts as it would be with a cutoff of 30 minutes
SweepAttemptsHalfHour(att, t) ==
    {r \in att : ~TextGt(FormatTs(t - SoftMs), r.attempted_at)}

\* init_database: DELETE FROM ip_attempts WHERE attempted_at < cutoff
SweepAttempts(att, t) ==
    {r \in att : ~TextGt(FormatTs(t - HourMs), r.attempted_at)}

\* init_database: DELETE FROM cookie_submissions WHERE submitted_at < cutoff
SweepCookies(cs, t) ==
    {r \in cs : ~TextGt(FormatTs(t - HourMs), r.submitted_at)}

\* the insert as it would be if created_at were not the current time
InsertFeedbackEpoch(fb, id, ip, t) ==
    fb \cup {[id |-> id, ip_address |-> ip, created_at |-> FormatTs(0)]}

\* the INSERT as it would be if it replaced the address's earlier rows
InsertFeedbackReplace(fb, id, ip, t) ==
    {r \in fb : r.ip_address # ip}
        \cup {[id |-> id, ip_address |-> ip, created_at |-> FormatTs(t)]}

\* INSERT INTO feedback ... (peer_ip, created_at)
InsertFeedback(fb, id, ip, t) ==
    fb \cup {[id |-> id, ip_address |-> ip, created_at |-> FormatTs(t)]}

-----------------------------------------------------------------------------
(* Inputs *)

Peers == {Txt(<<"a">>), Txt(<<"p">>)}
MainEnvs == {Txt(<<"p">>)}
MainXff == {Txt(<<"a", ",", " ", "b">>)}
MainXri == {Absent}
MainLimits == {0, 1, 2}  \* values of IP_RATE_LIMIT_MAX the server is run with
MainWebhooks == {FALSE}  \* DISCORD_WEBHOOK_URL is not set
Tokens == {"t1", "t2"}
FirstToken == "t1"
Passwords == {"admin123"}  \* ADMIN_PASSWORD is not set: the default password
JumpMs == SoftMs + 500  \* the clock is observed every 30 minutes and half a second

\* FeedbackSubmission: the five ratings, is_anonymous, server
\* (server: [some, len, listed], listed = is_valid_server(server))
Servers == {[some |-> FALSE, len |-> 0, listed |-> FALSE],
            [some |-> TRUE, len |-> 0, listed |-> FALSE],
            [some |-> TRUE, len |-> 6, listed |-> TRUE],
            [some |-> TRUE, len |-> 6, listed |-> FALSE],
            [some |-> TRUE, len |-> MAX_SERVER + 1, listed |-> FALSE]}
Forms == [ratings : {<<5, 4, 3, 2, 1>>, <<0, 3, 3, 3, 3>>, <<3, 3, 3, 3, 6>>},
          is_anonymous : BOOLEAN,
          server : Servers]

\* the validation as it would be without the server-name check
ValidateRatingsOnly(form) ==
    IF \E i \in 1..5 : ~(form.ratings[i] >= 1 /\ form.ratings[i] <= 5)
    THEN "Invalid rating value"
    ELSE ""

\* submit_feedback lines 158-185: the client-error answer, "" when valid
Validate(form) ==
    IF \E i \in 1..5 : ~(form.ratings[i] >= 1 /\ form.ratings[i] <= 5)
    THEN "Invalid rating value"
    ELSE IF /\ ~form.is_anonymous
            /\ form.server.some
            /\ form.server.len # 0
            /\ (form.server.len > MAX_SERVER \/ ~form.server.listed)
         THEN "Invalid server name"
         ELSE ""

\* check_admin_auth: the presented Basic password against admin_password
CheckAdminAuth(pass, configured) == pass # "" /\ pass = configured

\* the mutex as it would be if lock() never waited
CanAcquireAlways(l) == TRUE

\* parking_lot Mutex::lock returns only while nobody holds the mutex
CanAcquire(l) == l = Free

-----------------------------------------------------------------------------
(* State machine *)

NoText == <<>>
NoResponse == [status |-> 0, body |-> "", set_cookie |-> "", max_age |-> 0]

Init ==
    /\ now = StartClock
    /\ ip_rate_limit_max \in MainLimits
    /\ discord_webhook_url \in MainWebhooks
    /\ notifications = {}
    /\ trusted_proxy_ips \in {ParseTrustedProxies(e) : e \in MainEnvs}
    /\ admin_password \in Passwords
    /\ is_default_admin_password = TRUE
    /\ feedback = {}
    /\ cookie_submissions = {}
    /\ ip_attempts = {}
    /\ next_id = 0
    /\ db_open = TRUE
    /\ served = 0
    /\ lock = Free
    /\ pc = [p \in Reqs |-> "idle"]
    /\ conn_peer = [p \in Reqs |-> NoText]
    /\ peer_ip = [p \in Reqs |-> NoText]
    /\ display_ip = [p \in Reqs |-> NoText]
    /\ cookie_id = [p \in Reqs |-> ""]
    /\ decision = [p \in Reqs |-> ""]
    /\ response = [p \in Reqs |-> NoResponse]
    /\ events = {}
    /\ allowed_log = {}
    /\ write_ok = [p \in Reqs |-> ""]
    /\ in_peer = Absent
    /\ in_xff = Absent
    /\ in_xri = Absent
    /\ out_ip = <<>>
    /\ in_ip = NoText
    /\ in_cookie = ""
    /\ out_decision = <<>>

\* time passes between requests (a request is served, under the mutex,
\* within one reading of the clock)
Advance ==
    /\ now + JumpMs <= StartClock + MaxJumps * JumpMs
    /\ lock = Free
    /\ now' = now + JumpMs
    /\ UNCHANGED <<discord_webhook_url, notifications, served, ip_rate_limit_max, trusted_proxy_ips, admin_password, is_default_admin_password, feedback,
                   cookie_submissions, ip_attempts, next_id, db_open, lock, pc, conn_peer,
                   peer_ip, display_ip, cookie_id, decision, response, events,
                   allowed_log, write_ok, fnVars>>

\* submit_feedback lines 106-114: a request arrives, get_client_ip runs,
\* the mutex is taken, the cookie id is read from the request or made up.
\* The request brings a feedback_session cookie the server has set before, or
\* a token the store has never seen (a new uuid, or a cookie value of the
\* client's own making: the code treats both alike); unseen tokens are
\* named in order, FirstToken first.  An arriving request goes to the
\* lowest-numbered worker that is free.
Start(p) ==
    /\ pc[p] = "idle"
    /\ \A q \in Reqs : q < p => pc[q] # "idle"
    /\ CanAcquire(lock)
    /\ lock' = p
    /\ \E peer \in Peers, xff \in MainXff, xri \in MainXri :
          LET ips == GetClientIp(peer, xff, xri, trusted_proxy_ips)
          IN  /\ conn_peer' = [conn_peer EXCEPT ![p] = peer.text]
              /\ peer_ip' = [peer_ip EXCEPT ![p] = ips[1]]
              /\ display_ip' = [display_ip EXCEPT ![p] = ips[2]]
    /\ \/ \E c \in {r.token : r \in allowed_log} :
             cookie_id' = [cookie_id EXCEPT ![p] = c]
       \/ \E u \in Tokens :
             /\ \A r \in allowed_log : r.token # u
             /\ u = FirstToken \/ \E r \in allowed_log : r.token = FirstToken
             /\ cookie_id' = [cookie_id EXCEPT ![p] = u]
    /\ pc' = [pc EXCEPT ![p] = "check"]
    /\ UNCHANGED <<discord_webhook_url, notifications, served, allowed_log, now, db_open, ip_rate_limit_max, trusted_proxy_ips, admin_password, is_default_admin_password, feedback,
                   cookie_submissions, ip_attempts, next_id, decision, response,
                   events, write_ok, fnVars>>

\* submit_feedback lines 235-257: tokio::spawn(send_discord_notification) for
\* the row just inserted, when a webhook is configured
SpawnNotification(ns, webhook, id) ==
    IF webhook THEN ns \cup {[id |-> id, state |-> "running"]} ELSE ns

\* the handler has built its HttpResponse and is about to return it
Reply(p, status, body, cookie) ==
    /\ pc' = [pc EXCEPT ![p] = "respond"]
    /\ response' = [response EXCEPT ![p] =
                        [status |-> status, body |-> body, set_cookie |-> cookie,
                         max_age |-> IF cookie = "" THEN 0 ELSE CookieMaxAge]]

\* the return as it would be if the handler awaited the notification task
RespondAwaitsNotification(p) ==
    /\ \A n \in notifications : n.state # "running"
    /\ pc[p] = "respond"
    /\ pc' = [pc EXCEPT ![p] = "idle"]
    /\ lock' = IF lock = p THEN Free ELSE lock
    /\ response' = [response EXCEPT ![p] = NoResponse]
    /\ decision' = [decision EXCEPT ![p] = ""]
    /\ write_ok' = [write_ok EXCEPT ![p] = ""]
    /\ conn_peer' = [conn_peer EXCEPT ![p] = NoText]
    /\ peer_ip' = [peer_ip EXCEPT ![p] = NoText]
    /\ display_ip' = [display_ip EXCEPT ![p] = NoText]
    /\ cookie_id' = [cookie_id EXCEPT ![p] = ""]
    /\ UNCHANGED <<discord_webhook_url, notifications, served, allowed_log, now, db_open, ip_rate_limit_max, trusted_proxy_ips, admin_password, is_default_admin_password, feedback,
                   cookie_submissions, ip_attempts, next_id, events, fnVars>>

\* the handler returns: the MutexGuard drops, the locals die
Respond(p) ==
    /\ pc[p] = "respond"
    /\ pc' = [pc EXCEPT ![p] = "idle"]
    /\ lock' = IF lock = p THEN Free ELSE lock
    /\ response' = [response EXCEPT ![p] = NoResponse]
    /\ decision' = [decision EXCEPT ![p] = ""]
    /\ write_ok' = [write_ok EXCEPT ![p] = ""]
    /\ conn_peer' = [conn_peer EXCEPT ![p] = NoText]
    /\ peer_ip' = [peer_ip EXCEPT ![p] = NoText]
    /\ display_ip' = [display_ip EXCEPT ![p] = NoText]
    /\ cookie_id' = [cookie_id EXCEPT ![p] = ""]
    /\ UNCHANGED <<discord_webhook_url, notifications, served, allowed_log, now, db_open, ip_rate_limit_max, trusted_proxy_ips, admin_password, is_default_admin_password, feedback,
                   cookie_submissions, ip_attempts, next_id, events, fnVars>>

\* the match as it would be if a failed check let the request through
OnRateLimitFailOpen(p, d) ==
    CASE d = "IpHardLimit" -> Reply(p, 200, "rate_limited_hard", "")
      [] d = "CookieSoftLimit" ->
            /\ next_id <= MaxRows
            /\ pc' = [pc EXCEPT ![p] = "soft"]
            /\ UNCHANGED response
      [] OTHER ->
            /\ next_id < MaxRows
            /\ pc' = [pc EXCEPT ![p] = "insert"]
            /\ UNCHANGED response

\* the match as it would be if the hard-block page came with the cookie
OnRateLimitHardCookie(p, d) ==
    CASE d = "IpHardLimit" -> Reply(p, 200, "rate_limited_hard", cookie_id[p])
      [] d = "Err" -> Reply(p, 500, "Database error", "")
      [] d = "CookieSoftLimit" ->
            /\ next_id <= MaxRows
            /\ pc' = [pc EXCEPT ![p] = "soft"]
            /\ UNCHANGED response
      [] OTHER ->
            /\ next_id < MaxRows
            /\ pc' = [pc EXCEPT ![p] = "insert"]
            /\ UNCHANGED response

\* submit_feedback lines 118-156: the match on check_rate_limits' result
\* (exploration stops at a request that would write feedback row MaxRows + 1
\* or the row after the soft-blocked retry of feedback row MaxRows)
OnRateLimit(p, d) ==
    CASE d = "IpHardLimit" -> Reply(p, 200, "rate_limited_hard", "")
      [] d = "Err" -> Reply(p, 500, "Database error", "")
      [] d = "CookieSoftLimit" ->
            /\ next_id <= MaxRows
            /\ pc' = [pc EXCEPT ![p] = "soft"]
            /\ UNCHANGED response
      [] OTHER ->
            /\ next_id < MaxRows
            /\ pc' = [pc EXCEPT ![p] = "insert"]
            /\ UNCHANGED response

\* submit_feedback lines 118-156: check_rate_limits and the branch on it
Check(p) ==
    /\ pc[p] = "check"
    /\ \E failAt \in 0..3 :
          LET d == CheckRateLimits(feedback, ip_attempts, cookie_submissions, now,
                                   peer_ip[p], cookie_id[p], ip_rate_limit_max, failAt)
          IN  /\ decision' = [decision EXCEPT ![p] = d]
              /\ OnRateLimit(p, d)
    /\ UNCHANGED <<discord_webhook_url, notifications, served, allowed_log, now, db_open, ip_rate_limit_max, trusted_proxy_ips, admin_password, is_default_admin_password, feedback,
                   cookie_submissions, ip_attempts, next_id, lock, conn_peer, peer_ip,
                   display_ip, cookie_id, events, write_ok, fnVars>>

\* submit_feedback lines 121-135: record_ip_attempt (result ignored), answer
SoftBlock(p) ==
    /\ pc[p] = "soft"
    /\ \E ok \in BOOLEAN :
          IF ok
          THEN /\ ip_attempts' = RecordIpAttempt(ip_attempts, next_id, peer_ip[p], now)
               /\ next_id' = next_id + 1
               /\ events' = events \cup {[kind |-> "attempt", addr |-> conn_peer[p],
                                          at |-> now \div 1000, id |-> next_id]}
               /\ write_ok' = [write_ok EXCEPT ![p] = "ok"]
          ELSE /\ write_ok' = [write_ok EXCEPT ![p] = "err"]
               /\ UNCHANGED <<ip_attempts, next_id, events>>
    /\ Reply(p, 200, "rate_limited", "")
    /\ UNCHANGED <<discord_webhook_url, notifications, served, allowed_log, now, db_open, ip_rate_limit_max, trusted_proxy_ips, admin_password, is_default_admin_password, feedback,
                   cookie_submissions, lock, conn_peer, peer_ip, display_ip, cookie_id,
                   decision, fnVars>>

\* the same step as it would be if a failed INSERT were only logged
InsertFailOpen(p) ==
    /\ pc[p] = "insert"
    /\ \E form \in Forms, ok \in BOOLEAN :
          IF Validate(form) # ""
          THEN /\ Reply(p, 400, Validate(form), "")
               /\ UNCHANGED <<feedback, next_id, events, write_ok, allowed_log,
                              notifications>>
          ELSE IF ok
               THEN /\ feedback' = InsertFeedback(feedback, next_id, peer_ip[p], now)
                    /\ next_id' = next_id + 1
                    /\ events' = events \cup {[kind |-> "submission", addr |-> conn_peer[p],
                                               at |-> now \div 1000, id |-> next_id]}
                    /\ allowed_log' =
                          allowed_log \cup {[token |-> cookie_id[p], at |-> now \div 1000,
                                               recorded |-> FALSE]}
                    /\ notifications' =
                          SpawnNotification(notifications, discord_webhook_url, next_id)
                    /\ write_ok' = [write_ok EXCEPT ![p] = "ok"]
                    /\ pc' = [pc EXCEPT ![p] = "record"]
                    /\ UNCHANGED response
               ELSE /\ write_ok' = [write_ok EXCEPT ![p] = "err"]
                    /\ pc' = [pc EXCEPT ![p] = "record"]
                    /\ UNCHANGED <<feedback, next_id, events, allowed_log, response,
                                   notifications>>
    /\ UNCHANGED <<discord_webhook_url, served, now, db_open, ip_rate_limit_max, trusted_proxy_ips, admin_password, is_default_admin_password,
                   cookie_submissions, ip_attempts, lock, conn_peer, peer_ip,
                   display_ip, cookie_id, decision, fnVars>>

\* submit_feedback lines 158-224 and 288-291: validate, INSERT INTO feedback
Insert(p) ==
    /\ pc[p] = "insert"
    /\ \E form \in Forms, ok \in BOOLEAN :
          IF Validate(form) # ""
          THEN /\ Reply(p, 400, Validate(form), "")
               /\ UNCHANGED <<feedback, next_id, events, write_ok, allowed_log,
                              notifications>>
          ELSE IF ok
               THEN /\ feedback' = InsertFeedback(feedback, next_id, peer_ip[p], now)
                    /\ next_id' = next_id + 1
                    /\ events' = events \cup {[kind |-> "submission", addr |-> conn_peer[p],
                                               at |-> now \div 1000, id |-> next_id]}
                    /\ allowed_log' =
                          allowed_log \cup {[token |-> cookie_id[p], at |-> now \div 1000,
                                               recorded |-> FALSE]}
                    /\ notifications' =
                          SpawnNotification(notifications, discord_webhook_url, next_id)
                    /\ write_ok' = [write_ok EXCEPT ![p] = "ok"]
                    /\ pc' = [pc EXCEPT ![p] = "record"]
                    /\ UNCHANGED response
               ELSE /\ write_ok' = [write_ok EXCEPT ![p] = "err"]
                    /\ Reply(p, 500, "Failed to save feedback", "")
                    /\ UNCHANGED <<feedback, next_id, events, allowed_log, notifications>>
    /\ UNCHANGED <<discord_webhook_url, served, now, db_open, ip_rate_limit_max, trusted_proxy_ips, admin_password, is_default_admin_password,
                   cookie_submissions, ip_attempts, lock, conn_peer, peer_ip,
                   display_ip, cookie_id, decision, fnVars>>

\* the same step as it would be if the error of record_submission were returned
RecordFailClosed(p) ==
    /\ pc[p] = "record"
    /\ \E ok \in BOOLEAN :
          IF ok
          THEN /\ cookie_submissions' =
                      RecordSubmission(cookie_submissions, cookie_id[p], now)
               /\ write_ok' = [write_ok EXCEPT ![p] = "ok"]
               /\ allowed_log' =
                      {IF r.token = cookie_id[p] /\ r.at = now \div 1000
                       THEN [r EXCEPT !.recorded = TRUE] ELSE r : r \in allowed_log}
               /\ Reply(p, 200, "success", cookie_id[p])
          ELSE /\ write_ok' = [write_ok EXCEPT ![p] = "err"]
               /\ Reply(p, 500, "Database error", "")
               /\ UNCHANGED <<cookie_submissions, allowed_log>>
    /\ UNCHANGED <<discord_webhook_url, notifications, served, now, db_open, ip_rate_limit_max, trusted_proxy_ips, admin_password, is_default_admin_password,
                   feedback, ip_attempts, next_id, lock, conn_peer, peer_ip, display_ip,
                   cookie_id, decision, events, fnVars>>

\* submit_feedback lines 259-286: record_submission (error logged), success
Record(p) ==
    /\ pc[p] = "record"
    /\ \E ok \in BOOLEAN :
          IF ok
          THEN /\ cookie_submissions' =
                      RecordSubmission(cookie_submissions, cookie_id[p], now)
               /\ write_ok' = [write_ok EXCEPT ![p] = "ok"]
               /\ allowed_log' =
                      {IF r.token = cookie_id[p] /\ r.at = now \div 1000
                       THEN [r EXCEPT !.recorded = TRUE] ELSE r : r \in allowed_log}
          ELSE /\ write_ok' = [write_ok EXCEPT ![p] = "err"]
               /\ UNCHANGED <<cookie_submissions, allowed_log>>
    /\ Reply(p, 200, "success", cookie_id[p])
    /\ UNCHANGED <<discord_webhook_url, notifications, served, now, db_open, ip_rate_limit_max, trusted_proxy_ips, admin_password, is_default_admin_password,
                   feedback, ip_attempts, next_id, lock, conn_peer, peer_ip, display_ip,
                   cookie_id, decision, events, fnVars>>

\* delete_feedback: the 401, or the result of DELETE FROM feedback WHERE id
\* (ok: the statement succeeds) and the feedback table it leaves
DeleteFeedbackOutcome(pass, configured, id, fb, ok) ==
    IF ~CheckAdminAuth(pass, configured)
    THEN [status |-> 401, body |-> "Unauthorized", feedback |-> fb]
    ELSE IF ~ok
    THEN [status |-> 500, body |-> "Failed to delete", feedback |-> fb]
    ELSE IF \E r \in fb : r.id = id
    THEN [status |-> 200, body |-> "Deleted", feedback |-> {r \in fb : r.id # id}]
    ELSE [status |-> 404, body |-> "Feedback not found", feedback |-> fb]

\* admin_panel: the default-password page, the 401, or the page that lists
\* the feedback rows (ok: the SELECT succeeds)
AdminPanelPage(pass, configured, is_default, fb, ok) ==
    IF is_default
    THEN [status |-> 200, body |-> "default_password_error", rows |-> {}]
    ELSE IF ~CheckAdminAuth(pass, configured)
    THEN [status |-> 401, body |-> "Unauthorized", rows |-> {}]
    ELSE IF ~ok
    THEN [status |-> 500, body |-> "Database error", rows |-> {}]
    ELSE [status |-> 200, body |-> "admin", rows |-> fb]

\* delete_feedback: check_admin_auth, lock, DELETE FROM feedback WHERE id
DeleteFeedback ==
    /\ CanAcquire(lock)
    /\ feedback' \in
          {DeleteFeedbackOutcome(pass, admin_password, id, feedback, ok).feedback :
              pass \in Passwords \cup {""}, id \in 0..MaxRows, ok \in BOOLEAN}
    /\ UNCHANGED <<discord_webhook_url, notifications, served, now, ip_rate_limit_max, trusted_proxy_ips, admin_password, is_default_admin_password,
                   cookie_submissions, ip_attempts, next_id, db_open, lock, pc, conn_peer,
                   peer_ip, display_ip, cookie_id, decision, response, events,
                   allowed_log, write_ok, fnVars>>

\* admin_panel: the default-password page, the 401, or lock and SELECT the
\* feedback rows for display; no branch writes
AdminPanel ==
    /\ {AdminPanelPage(pass, admin_password, is_default_admin_password, feedback, ok) :
              pass \in {q \in Passwords \cup {""} :
                           CheckAdminAuth(q, admin_password) /\ ~is_default_admin_password
                               => CanAcquire(lock)},
              ok \in BOOLEAN} # {}
    /\ UNCHANGED vars

\* the process starts (again): init_database lines 73-85 run both clean-up
\* statements and ignore their results, then the Connection is returned
InitDatabase ==
    /\ \A p \in Reqs : pc[p] = "idle"
    /\ \E ok1 \in BOOLEAN, ok2 \in BOOLEAN :
          /\ cookie_submissions' = IF ok1 THEN SweepCookies(cookie_submissions, now)
                                          ELSE cookie_submissions
          /\ ip_attempts' = IF ok2 THEN SweepAttempts(ip_attempts, now)
                                    ELSE ip_attempts
    /\ db_open' = TRUE
    /\ UNCHANGED <<discord_webhook_url, notifications, served, now, ip_rate_limit_max, trusted_proxy_ips, admin_password, is_default_admin_password, feedback,
                   next_id, lock, pc, conn_peer, peer_ip, display_ip, cookie_id,
                   decision, response, events, allowed_log, write_ok, fnVars>>

Next ==
    \/ Advance
    \/ \E p \in Reqs : Start(p)
    \/ \E p \in Reqs : Check(p)
    \/ \E p \in Reqs : SoftBlock(p)
    \/ \E p \in Reqs : Insert(p)
    \/ \E p \in Reqs : Record(p)
    \/ \E p \in Reqs : Respond(p)
    \/ DeleteFeedback
    \/ AdminPanel
    \/ InitDatabase

Spec == Init /\ [][Next]_vars

-----------------------------------------------------------------------------
(* The server run with DISCORD_WEBHOOK_URL set: the requests and the
   notification tasks they spawn on the tokio runtime *)

InitNotify ==
    /\ now = StartClock
    /\ ip_rate_limit_max \in MainLimits
    /\ discord_webhook_url = TRUE
    /\ notifications = {}
    /\ trusted_proxy_ips \in {ParseTrustedProxies(e) : e \in MainEnvs}
    /\ admin_password \in Passwords
    /\ is_default_admin_password = TRUE
    /\ feedback = {}
    /\ cookie_submissions = {}
    /\ ip_attempts = {}
    /\ next_id = 0
    /\ db_open = TRUE
    /\ served = 0
    /\ lock = Free
    /\ pc = [p \in Reqs |-> "idle"]
    /\ conn_peer = [p \in Reqs |-> NoText]
    /\ peer_ip = [p \in Reqs |-> NoText]
    /\ display_ip = [p \in Reqs |-> NoText]
    /\ cookie_id = [p \in Reqs |-> ""]
    /\ decision = [p \in Reqs |-> ""]
    /\ response = [p \in Reqs |-> NoResponse]
    /\ events = {}
    /\ allowed_log = {}
    /\ write_ok = [p \in Reqs |-> ""]
    /\ in_peer = Absent
    /\ in_xff = Absent
    /\ in_xri = Absent
    /\ out_ip = <<>>
    /\ in_ip = NoText
    /\ in_cookie = ""
    /\ out_decision = <<>>

\* the spawned task ends: send_discord_notification returned Ok ("sent") or
\* Err, which is logged ("failed"); a task whose POST never returns stays
\* "running"
NotifyFinish ==
    /\ \E n \in notifications, result \in {"sent", "failed"} :
          /\ n.state = "running"
          /\ notifications' = (notifications \ {n}) \cup {[n EXCEPT !.state = result]}
    /\ UNCHANGED <<now, ip_rate_limit_max, trusted_proxy_ips, admin_password, is_default_admin_password,
                   discord_webhook_url, feedback, cookie_submissions, ip_attempts,
                   next_id, db_open, served, lock, pc, conn_peer, peer_ip, display_ip,
                   cookie_id, decision, response, events, allowed_log, write_ok, fnVars>>

NextNotify ==
    \/ \E p \in Reqs : Start(p)
    \/ \E p \in Reqs : Check(p)
    \/ \E p \in Reqs : SoftBlock(p)
    \/ \E p \in Reqs : Insert(p)
    \/ \E p \in Reqs : Record(p)
    \/ \E p \in Reqs : Respond(p)
    \/ NotifyFinish

SpecNotify == InitNotify /\ [][NextNotify]_vars

-----------------------------------------------------------------------------
(* get_client_ip run on its own: the inputs are drawn, the function applied *)

Alphabet == {"a", "b", ",", " "}

RECURSIVE TextsUpTo(_)
TextsUpTo(n) ==
    IF n = 0 THEN {<<>>}
    ELSE LET shorter == TextsUpTo(n - 1)
         IN  shorter \cup {Append(s, c) : s \in shorter, c \in Alphabet}

IpPeers == {Absent, Txt(<<"a">>), Txt(<<"b">>)}
IpXff == {Absent, NonText} \cup {Txt(s) : s \in TextsUpTo(MaxHdrLen)}
IpXri == {Absent, NonText, Txt(<<>>), Txt(<<"b">>), Txt(<<" ", "a">>)}
IpEnvs == {Absent} \cup {Txt(s) : s \in TextsUpTo(MaxEnvLen)}

\* everything but the inputs and results of the stand-alone runs, as in Init
Idle ==
    /\ served = 0
    /\ discord_webhook_url = FALSE
    /\ notifications = {}
    /\ admin_password \in Passwords
    /\ is_default_admin_password = TRUE
    /\ next_id = 0
    /\ lock = Free
    /\ pc = [p \in Reqs |-> "idle"]
    /\ conn_peer = [p \in Reqs |-> NoText]
    /\ peer_ip = [p \in Reqs |-> NoText]
    /\ display_ip = [p \in Reqs |-> NoText]
    /\ cookie_id = [p \in Reqs |-> ""]
    /\ decision = [p \in Reqs |-> ""]
    /\ response = [p \in Reqs |-> NoResponse]
    /\ events = {}
    /\ allowed_log = {}
    /\ write_ok = [p \in Reqs |-> ""]

InitIp ==
    /\ Idle
    /\ db_open = TRUE
    /\ now = StartClock
    /\ ip_rate_limit_max = MaxLimit
    /\ feedback = {}
    /\ cookie_submissions = {}
    /\ ip_attempts = {}
    /\ trusted_proxy_ips \in {ParseTrustedProxies(e) : e \in IpEnvs}
    /\ in_peer \in IpPeers
    /\ in_xff \in IpXff
    /\ in_xri \in IpXri
    /\ out_ip = <<>>
    /\ in_ip = NoText
    /\ in_cookie = ""
    /\ out_decision = <<>>

Resolve ==
    /\ out_ip = <<>>
    /\ out_ip' = GetClientIp(in_peer, in_xff, in_xri, trusted_proxy_ips)
    /\ UNCHANGED <<discord_webhook_url, notifications, served, now, ip_rate_limit_max, trusted_proxy_ips, admin_password, is_default_admin_password, feedback,
                   cookie_submissions, ip_attempts, next_id, db_open, lock, pc, conn_peer,
                   peer_ip, display_ip, cookie_id, decision, response, events,
                   allowed_log, write_ok, in_peer, in_xff, in_xri, in_ip, in_cookie, out_decision>>

NextIp == Resolve

SpecIp == InitIp /\ [][NextIp]_vars

-----------------------------------------------------------------------------
(* check_rate_limits run on its own: a store is drawn, the function applied *)

\* how long before now a drawn row was written, in milliseconds
RowAges == {600000, 3599500, 3600000, 3660000}
CookieAges == {600000, 1800000, 1860000}
EvalNow == StartClock + 61 * 60000

RECURSIVE SeqsUpTo(_, _)
SeqsUpTo(S, n) ==
    IF n = 0 THEN {<<>>}
    ELSE LET shorter == SeqsUpTo(S, n - 1)
         IN  shorter \cup {Append(q, x) : q \in shorter, x \in S}

RowChoices == [table : {"feedback", "ip_attempts"}, ip : {<<"a">>, <<"p">>}, age : RowAges]

InitEval ==
    /\ Idle
    /\ db_open = TRUE
    /\ now = EvalNow
    /\ ip_rate_limit_max \in 0..MaxLimit
    /\ trusted_proxy_ips = <<>>
    /\ \E rows \in SeqsUpTo(RowChoices, MaxRows) :
          /\ feedback = {[id |-> i, ip_address |-> rows[i].ip,
                          created_at |-> FormatTs(EvalNow - rows[i].age)] :
                            i \in {k \in DOMAIN rows : rows[k].table = "feedback"}}
          /\ ip_attempts = {[id |-> i, ip_address |-> rows[i].ip,
                             attempted_at |-> FormatTs(EvalNow - rows[i].age)] :
                               i \in {k \in DOMAIN rows : rows[k].table = "ip_attempts"}}
    /\ \E ages \in [Tokens -> CookieAges \cup {-1}] :
          cookie_submissions =
              {[cookie_id |-> c, submitted_at |-> FormatTs(EvalNow - ages[c])] :
                  c \in {k \in Tokens : ages[k] # -1}}
    /\ in_peer = Absent
    /\ in_xff = Absent
    /\ in_xri = Absent
    /\ out_ip = <<>>
    /\ in_ip \in {<<"a">>, <<"p">>}
    /\ in_cookie \in Tokens
    /\ out_decision = <<>>

\* one call for every way the store can fail: out_decision[f + 1] is the
\* result when query f fails (f = 0: no query fails)
Evaluate ==
    /\ out_decision = <<>>
    /\ out_decision' =
          [f \in 1..4 |-> CheckRateLimits(feedback, ip_attempts, cookie_submissions, now,
                                          in_ip, in_cookie, ip_rate_limit_max, f - 1)]
    /\ UNCHANGED <<discord_webhook_url, notifications, served, now, ip_rate_limit_max, trusted_proxy_ips, admin_password, is_default_admin_password, feedback,
                   cookie_submissions, ip_attempts, next_id, db_open, lock, pc, conn_peer,
                   peer_ip, display_ip, cookie_id, decision, response, events,
                   allowed_log, write_ok, in_peer, in_xff, in_xri, out_ip, in_ip, in_cookie>>

NextEval == Evaluate

SpecEval == InitEval /\ [][NextEval]_vars

-----------------------------------------------------------------------------
(* init_database run on its own: the process starts on the database file an
   earlier run has left, and the clean-up statements are applied to it *)

\* how long before the start a row of the file was written, in milliseconds
SweepAges == {600000, 3599500, 3600000, 3601000}

InitSweep ==
    /\ Idle
    /\ db_open = FALSE
    /\ now = EvalNow
    /\ ip_rate_limit_max = DefaultIpRateLimitMax
    /\ trusted_proxy_ips = <<>>
    /\ \E age \in SweepAges :
          feedback \in {{}, {[id |-> 0, ip_address |-> <<"a">>,
                               created_at |-> FormatTs(EvalNow - age)]}}
    /\ \E ages \in SeqsUpTo(SweepAges, MaxRows) :
          ip_attempts = {[id |-> i, ip_address |-> <<"a">>,
                          attempted_at |-> FormatTs(EvalNow - ages[i])] : i \in DOMAIN ages}
    /\ \E ages \in [Tokens -> SweepAges \cup {-1}] :
          cookie_submissions =
              {[cookie_id |-> c, submitted_at |-> FormatTs(EvalNow - ages[c])] :
                  c \in {k \in Tokens : ages[k] # -1}}
    /\ in_peer = Absent
    /\ in_xff = Absent
    /\ in_xri = Absent
    /\ out_ip = <<>>
    /\ in_ip = NoText
    /\ in_cookie = ""
    /\ out_decision = <<>>

\* main: init_database is called once, before the server accepts requests
OpenDatabase ==
    /\ ~db_open
    /\ InitDatabase

NextSweep == OpenDatabase

SpecSweep == InitSweep /\ [][NextSweep]_vars

-----------------------------------------------------------------------------
(* The end-to-end scenario: one client at one address sends request after
   request to a server started on an empty store with the default hard limit.
   submit_feedback runs under the mutex from its first to its last store
   statement, so a request is one step here. *)

ScenarioPeer == Txt(<<"a">>)
Worker == CHOOSE p \in Reqs : \A q \in Reqs : p <= q

\* the n-th uuid::Uuid::new_v4() that reached a Set-Cookie header
NewToken(n) == "u" \o ToString(n)

\* the feedback_session cookies the server has set so far
IssuedTokens == {r.token : r \in allowed_log}

\* the feedback_session cookie the client holds: the last one the server set
JarTokens == IF IssuedTokens = {} THEN {} ELSE {NewToken(Cardinality(IssuedTokens))}

\* the forms the scenario's client posts: anonymous ones with good or bad
\* ratings, signed ones with good ratings and any server field
ScenarioForms ==
    {f \in Forms :
        /\ f.ratings[5] <= 5
        /\ f.is_anonymous => ~f.server.some
        /\ ~f.is_anonymous => f.ratings[1] >= 1}

InitScenario ==
    /\ now = StartClock
    /\ discord_webhook_url \in MainWebhooks
    /\ notifications = {}
    /\ ip_rate_limit_max = DefaultIpRateLimitMax
    /\ trusted_proxy_ips \in {ParseTrustedProxies(e) : e \in MainEnvs}
    /\ admin_password \in Passwords
    /\ is_default_admin_password = TRUE
    /\ feedback = {}
    /\ cookie_submissions = {}
    /\ ip_attempts = {}
    /\ next_id = 0
    /\ db_open = TRUE
    /\ served = 0
    /\ lock = Free
    /\ pc = [p \in Reqs |-> "idle"]
    /\ conn_peer = [p \in Reqs |-> NoText]
    /\ peer_ip = [p \in Reqs |-> NoText]
    /\ display_ip = [p \in Reqs |-> NoText]
    /\ cookie_id = [p \in Reqs |-> ""]
    /\ decision = [p \in Reqs |-> ""]
    /\ response = [p \in Reqs |-> NoResponse]
    /\ events = {}
    /\ allowed_log = {}
    /\ write_ok = [p \in Reqs |-> ""]
    /\ in_peer = Absent
    /\ in_xff = Absent
    /\ in_xri = Absent
    /\ out_ip = <<>>
    /\ in_ip = NoText
    /\ in_cookie = ""
    /\ out_decision = <<>>

\* submit_feedback lines 106-293 for one request: cookie is the
\* feedback_session value or the new uuid, failAt the failing query of
\* check_rate_limits (0: none), ok the result of the INSERT (of the attempt
\* or of the feedback row), okRec the result of record_submission
SubmitFeedback(cookie, form, failAt, ok, okRec) ==
    LET ips == GetClientIp(ScenarioPeer, Absent, Absent, trusted_proxy_ips)
        d == CheckRateLimits(feedback, ip_attempts, cookie_submissions, now,
                             ips[1], cookie, ip_rate_limit_max, failAt)
        valid == Validate(form) = ""
        attempted == d = "CookieSoftLimit" /\ ok
        inserted == d = "None" /\ valid /\ ok
        recorded == inserted /\ okRec
        answer ==
            CASE d = "IpHardLimit" ->
                     [status |-> 200, body |-> "rate_limited_hard", set_cookie |-> "", max_age |-> 0]
              [] d = "Err" ->
                     [status |-> 500, body |-> "Database error", set_cookie |-> "", max_age |-> 0]
              [] d = "CookieSoftLimit" ->
                     [status |-> 200, body |-> "rate_limited", set_cookie |-> "", max_age |-> 0]
              [] d = "None" /\ ~valid ->
                     [status |-> 400, body |-> Validate(form), set_cookie |-> "", max_age |-> 0]
              [] d = "None" /\ valid /\ ~ok ->
                     [status |-> 500, body |-> "Failed to save feedback", set_cookie |-> "", max_age |-> 0]
              [] OTHER ->
                     [status |-> 200, body |-> "success", set_cookie |-> cookie,
                      max_age |-> CookieMaxAge]
    IN  /\ conn_peer' = [conn_peer EXCEPT ![Worker] = ScenarioPeer.text]
        /\ peer_ip' = [peer_ip EXCEPT ![Worker] = ips[1]]
        /\ display_ip' = [display_ip EXCEPT ![Worker] = ips[2]]
        /\ cookie_id' = [cookie_id EXCEPT ![Worker] = cookie]
        /\ decision' = [decision EXCEPT ![Worker] = d]
        /\ response' = [response EXCEPT ![Worker] = answer]
        /\ write_ok' = [write_ok EXCEPT ![Worker] =
                            IF d = "CookieSoftLimit" THEN (IF ok THEN "ok" ELSE "err")
                            ELSE IF d = "None" /\ valid
                                 THEN (IF recorded THEN "ok" ELSE "err")
                                 ELSE ""]
        /\ ip_attempts' = IF attempted
                          THEN RecordIpAttempt(ip_attempts, next_id, ips[1], now)
                          ELSE ip_attempts
        /\ feedback' = IF inserted
                       THEN InsertFeedback(feedback, next_id, ips[1], now)
                       ELSE feedback
        /\ notifications' =
              IF inserted
              THEN SpawnNotification(notifications, discord_webhook_url, next_id)
              ELSE notifications
        /\ cookie_submissions' = IF recorded
                                 THEN RecordSubmission(cookie_submissions, cookie, now)
                                 ELSE cookie_submissions
        /\ next_id' = IF attempted \/ inserted THEN next_id + 1 ELSE next_id
        /\ events' =
              IF attempted \/ inserted
              THEN events \cup {[kind |-> IF inserted THEN "submission" ELSE "attempt",
                                 addr |-> ScenarioPeer.text, at |-> now \div 1000,
                                 id |-> next_id]}
              ELSE events
        /\ allowed_log' =
              IF inserted
              THEN {r \in allowed_log : ~(r.token = cookie /\ r.at = now \div 1000)}
                       \cup {[token |-> cookie, at |-> now \div 1000, recorded |-> recorded]}
              ELSE allowed_log

\* the client sends its next request, with the cookie it holds or without one;
\* the store answers every statement of the scenario
SubmitUpTo(max) ==
    /\ served < max
    /\ CanAcquire(lock)
    /\ served' = served + 1
    /\ \E cookie \in JarTokens \cup {NewToken(Cardinality(IssuedTokens) + 1)},
          form \in ScenarioForms :
              SubmitFeedback(cookie, form, 0, TRUE, TRUE)
    /\ UNCHANGED <<now, ip_rate_limit_max, trusted_proxy_ips, admin_password, is_default_admin_password,
                   discord_webhook_url, db_open, lock, pc, fnVars>>

Submit == SubmitUpTo(MaxRequests)

NextScenario == Submit

SpecScenario == InitScenario /\ [][NextScenario]_vars

-----------------------------------------------------------------------------
(* One client that keeps sending requests while time passes: the server,
   with any threshold, runs on a database file in which an earlier run has
   left attempt rows of the client's address. *)

\* how long before the start such a row was written, in milliseconds
RetryAges == {600000, 3601000}

InitRetry ==
    /\ now = StartClock
    /\ discord_webhook_url \in MainWebhooks
    /\ notifications = {}
    /\ ip_rate_limit_max \in MainLimits
    /\ trusted_proxy_ips \in {ParseTrustedProxies(e) : e \in MainEnvs}
    /\ admin_password \in Passwords
    /\ is_default_admin_password = TRUE
    /\ feedback = {}
    /\ cookie_submissions = {}
    /\ \E ages \in SeqsUpTo(RetryAges, MaxRows) :
          /\ ip_attempts = {[id |-> i - 1, ip_address |-> ScenarioPeer.text,
                             attempted_at |-> FormatTs(StartClock - ages[i])] :
                               i \in DOMAIN ages}
          /\ next_id = Len(ages)
    /\ db_open = TRUE
    /\ served = 0
    /\ lock = Free
    /\ pc = [p \in Reqs |-> "idle"]
    /\ conn_peer = [p \in Reqs |-> NoText]
    /\ peer_ip = [p \in Reqs |-> NoText]
    /\ display_ip = [p \in Reqs |-> NoText]
    /\ cookie_id = [p \in Reqs |-> ""]
    /\ decision = [p \in Reqs |-> ""]
    /\ response = [p \in Reqs |-> NoResponse]
    /\ events = {}
    /\ allowed_log = {}
    /\ write_ok = [p \in Reqs |-> ""]
    /\ in_peer = Absent
    /\ in_xff = Absent
    /\ in_xri = Absent
    /\ out_ip = <<>>
    /\ in_ip = NoText
    /\ in_cookie = ""
    /\ out_decision = <<>>

\* the client's next request, one of at most MaxRetries
Retry == SubmitUpTo(MaxRetries)

NextRetry == Retry \/ Advance

SpecRetry == InitRetry /\ [][NextRetry]_vars

-----------------------------------------------------------------------------
(* Properties *)

\* what the claims call times: whole seconds read back from a timestamp
TsSeconds(ts) ==
    ts[1] * 86400 + (ts[2] * 10 + ts[3]) * 3600 + (ts[4] * 10 + ts[5]) * 60
        + ts[6] * 10 + ts[7]

NowSec == now \div 1000
AgeSec(ts) == NowSec - TsSeconds(ts)
PeerTexts == {q.text : q \in Peers}

\* rows of an address whose timestamp is less than one hour before now
HardLimitCount(ip) ==
    Cardinality({r \in feedback :
                    r.ip_address = ip /\ AgeSec(r.created_at) < HourMs \div 1000})
        + Cardinality({r \in ip_attempts :
                    r.ip_address = ip /\ AgeSec(r.attempted_at) < HourMs \div 1000})

\* the same with the row that is exactly one hour old included
ClosedHardLimitCount(ip) ==
    Cardinality({r \in feedback :
                    r.ip_address = ip /\ AgeSec(r.created_at) <= HourMs \div 1000})
        + Cardinality({r \in ip_attempts :
                    r.ip_address = ip /\ AgeSec(r.attempted_at) <= HourMs \div 1000})

\* the token has a SubmissionRecord less than 30 minutes old
HasSoftRecord(c) ==
    \E r \in cookie_submissions :
        r.cookie_id = c /\ AgeSec(r.submitted_at) < SoftMs \div 1000

Evaluated == out_decision # <<>>

\* C1: when the address's hard-limit count is at or over the threshold,
\* check_rate_limits answers IpHardLimit, also for a token that has a fresh
\* SubmissionRecord (and also when the cookie query, which is never run, would
\* fail); CookieSoftLimit is never the answer in such a state.
C1_HardBlockPrecedence ==
    (Evaluated /\ HardLimitCount(in_ip) >= ip_rate_limit_max)
        => /\ out_decision[1] = "IpHardLimit"
           /\ out_decision[4] = "IpHardLimit"
           /\ \A f \in 1..4 : out_decision[f] # "CookieSoftLimit"

C1_Witness ==
    /\ Evaluated
    /\ ip_rate_limit_max >= 1
    /\ HardLimitCount(in_ip) >= ip_rate_limit_max
    /\ HasSoftRecord(in_cookie)
    /\ out_decision[1] = "IpHardLimit"

\* C2: under the threshold the answer is CookieSoftLimit exactly when the
\* token has a SubmissionRecord inside the 30-minute window and None exactly
\* when it has not; with a working store the answer is always one of
\* IpHardLimit, CookieSoftLimit, None.
C2_SoftOrAllowed ==
    Evaluated =>
        /\ out_decision[1] \in {"IpHardLimit", "CookieSoftLimit", "None"}
        /\ HardLimitCount(in_ip) < ip_rate_limit_max =>
              /\ out_decision[1] = "CookieSoftLimit" <=> HasSoftRecord(in_cookie)
              /\ out_decision[1] = "None" <=> ~HasSoftRecord(in_cookie)

C2_Witness ==
    /\ Evaluated
    /\ HardLimitCount(in_ip) < ip_rate_limit_max
    /\ ~HasSoftRecord(in_cookie)
    /\ \E c \in Tokens : HasSoftRecord(c)
    /\ out_decision[1] = "None"

\* C8: under the threshold a token whose SubmissionRecord is 10 minutes old
\* is soft-blocked, one whose record is 31 minutes old or older is allowed,
\* and one whose record is exactly 30 minutes old is allowed as well.
C8_SoftWindowBoundary ==
    (Evaluated /\ HardLimitCount(in_ip) < ip_rate_limit_max) =>
        \A r \in cookie_submissions :
            r.cookie_id = in_cookie =>
                /\ AgeSec(r.submitted_at) = 10 * 60 => out_decision[1] = "CookieSoftLimit"
                /\ AgeSec(r.submitted_at) >= 31 * 60 => out_decision[1] = "None"
                /\ AgeSec(r.submitted_at) = 30 * 60 => out_decision[1] = "None"

C8_Witness ==
    /\ Evaluated
    /\ HardLimitCount(in_ip) < ip_rate_limit_max
    /\ \E r \in cookie_submissions :
          r.cookie_id = in_cookie /\ AgeSec(r.submitted_at) = 30 * 60
    /\ \E r \in cookie_submissions :
          r.cookie_id # in_cookie /\ AgeSec(r.submitted_at) = 10 * 60
    /\ out_decision[1] = "None"

\* C9 as stated: the count behind the hard limit takes in every row of the
\* address with a timestamp in the closed window [now - 1 hour, now].
C9_ClosedWindowCount ==
    Evaluated =>
        (out_decision[1] = "IpHardLimit"
            <=> ClosedHardLimitCount(in_ip) >= ip_rate_limit_max)

\* C9 amended: the count takes in the feedback rows and the attempt rows of
\* the address whose timestamp is later than now - 1 hour (whole seconds); a
\* row timestamped exactly one hour before now is not counted.
C9_HalfOpenWindowCount ==
    Evaluated =>
        (out_decision[1] = "IpHardLimit"
            <=> HardLimitCount(in_ip) >= ip_rate_limit_max)

C9_Witness ==
    /\ Evaluated
    /\ \E r \in feedback \cup ip_attempts :
          /\ r.ip_address = in_ip
          /\ TsSeconds(IF "created_at" \in DOMAIN r THEN r.created_at ELSE r.attempted_at)
                = NowSec - HourMs \div 1000
    /\ \E r \in ip_attempts : r.ip_address = in_ip /\ AgeSec(r.attempted_at) = 10 * 60
    /\ ClosedHardLimitCount(in_ip) >= ip_rate_limit_max
    /\ HardLimitCount(in_ip) < ip_rate_limit_max
    /\ out_decision[1] # "IpHardLimit"

\* the connection-origin address of the stand-alone get_client_ip run
InPeerText == IF in_peer.kind = "text" THEN in_peer.text ELSE Unknown

\* it equals a configured trusted-proxy entry, the entry trimmed
InPeerIsProxy ==
    \E i \in DOMAIN trusted_proxy_ips : Trim(trusted_proxy_ips[i]) = InPeerText

\* d is what stands before the first comma of s, without the blanks around it
IsFirstTokenTrimmed(d, s) ==
    /\ \A m \in DOMAIN d : d[m] # ","
    /\ d # <<>> => (d[1] # " " /\ d[Len(d)] # " ")
    /\ \E i \in 0..Len(s), j \in 0..Len(s) :
          LET k == i + Len(d) + j
          IN  /\ k <= Len(s)
              /\ k = Len(s) \/ s[k + 1] = ","
              /\ \A m \in 1..i : s[m] = " "
              /\ \A m \in 1..Len(d) : s[i + m] = d[m]
              /\ \A m \in (i + Len(d) + 1)..k : s[m] = " "

\* C6: for a connection-origin address that equals no (trimmed) entry of the
\* trusted-proxy list, the empty list included, get_client_ip returns the
\* address itself as display address whatever X-Forwarded-For and X-Real-IP hold.
C6_UntrustedPeerIgnoresHeaders ==
    (out_ip # <<>> /\ ~InPeerIsProxy) => out_ip = <<InPeerText, InPeerText>>

C6_Witness ==
    /\ out_ip = <<InPeerText, InPeerText>>
    /\ ~InPeerIsProxy
    /\ trusted_proxy_ips # <<>>
    /\ in_xff.kind = "text" /\ Trim(SplitFirst(in_xff.text)) \notin {<<>>, InPeerText}
    /\ in_xri.kind = "text" /\ Trim(in_xri.text) \notin {<<>>, InPeerText}

\* C7: for a connection-origin address in the trusted-proxy list and a textual
\* X-Forwarded-For value, the display address is the value's first
\* comma-separated token without surrounding blanks, and the trusted address
\* returned with it is still the connection-origin address.
C7_ProxyFirstForwardedToken ==
    (out_ip # <<>> /\ InPeerIsProxy /\ in_xff.kind = "text")
        => /\ out_ip[1] = InPeerText
           /\ IsFirstTokenTrimmed(out_ip[2], in_xff.text)

C7_Witness ==
    /\ InPeerIsProxy
    /\ in_peer = Txt(<<"b">>)
    /\ in_xff = Txt(<<"a", ",", " ", "b">>)
    /\ out_ip = <<(<<"b">>), (<<"a">>)>>

-----------------------------------------------------------------------------
\* counted events of an address that are less than an hour old and whose row
\* is still stored (delete_feedback removes feedback rows)
LiveEvents(addr) ==
    {e \in events :
        /\ e.addr = addr
        /\ NowSec - e.at < HourMs \div 1000
        /\ e.kind = "submission" => \E r \in feedback : r.id = e.id}

\* C3: once hard_limit_max counted events (submissions, attempts, any mix) of
\* an address lie within the hour, the next check_rate_limits call made for a
\* request of that address answers IpHardLimit whatever the device token (the
\* call can only fail with a store error instead, never let the request on).
C3_NthEventHardBlocks ==
    [][\A p \in Reqs :
          (/\ pc[p] = "check"
           /\ pc'[p] # "check"
           /\ Cardinality(LiveEvents(conn_peer[p])) >= ip_rate_limit_max)
             => /\ decision'[p] \in {"IpHardLimit", "Err"}
                /\ pc'[p] = "respond"
                /\ response'[p].body \in {"rate_limited_hard", "Database error"}]_vars

C3_Witness ==
    \E p \in Reqs :
        /\ pc[p] = "respond"
        /\ decision[p] = "IpHardLimit"
        /\ ip_rate_limit_max = 2
        /\ \E e \in LiveEvents(conn_peer[p]) : e.kind = "submission"
        /\ \E e \in LiveEvents(conn_peer[p]) : e.kind = "attempt"
        /\ \A r \in cookie_submissions : r.cookie_id # cookie_id[p]

\* C4: a request decided CookieSoftLimit goes on to record_ip_attempt for its
\* connection-origin address; when that write succeeds the address's
\* hard-limit count rises by exactly 1, no other address's count changes, and
\* if the count was hard_limit_max - 1 the next check for the address answers
\* IpHardLimit for every token; the step touches no other table.
C4_SoftBlockCountsOnce ==
    [][\A p \in Reqs :
          /\ (pc[p] = "check" /\ decision'[p] = "CookieSoftLimit") => pc'[p] = "soft"
          /\ (pc[p] = "soft" /\ pc'[p] # "soft") =>
                /\ write_ok'[p] \in {"ok", "err"}
                /\ feedback' = feedback
                /\ cookie_submissions' = cookie_submissions
                /\ write_ok'[p] = "err" => ip_attempts' = ip_attempts
                /\ write_ok'[p] = "ok" =>
                      /\ HardLimitCount(conn_peer[p])' = HardLimitCount(conn_peer[p]) + 1
                      /\ \A a \in PeerTexts \ {conn_peer[p]} :
                            HardLimitCount(a)' = HardLimitCount(a)
                      /\ HardLimitCount(conn_peer[p]) = ip_rate_limit_max - 1 =>
                            \A c \in Tokens :
                                CheckRateLimits(feedback', ip_attempts',
                                                cookie_submissions', now', conn_peer[p],
                                                c, ip_rate_limit_max, 0) = "IpHardLimit"]_vars

C4_Witness ==
    \E p \in Reqs :
        /\ pc[p] = "respond"
        /\ response[p].body = "rate_limited"
        /\ write_ok[p] = "ok"
        /\ ip_rate_limit_max = 2
        /\ HardLimitCount(conn_peer[p]) = ip_rate_limit_max

WindowCount(ip, T) ==
    Cardinality({r \in feedback :
                    /\ r.ip_address = ip
                    /\ TsSeconds(r.created_at) <= T
                    /\ T - TsSeconds(r.created_at) < HourMs \div 1000})
        + Cardinality({r \in ip_attempts :
                    /\ r.ip_address = ip
                    /\ TsSeconds(r.attempted_at) <= T
                    /\ T - TsSeconds(r.attempted_at) < HourMs \div 1000})

WindowEnds ==
    {NowSec} \cup {TsSeconds(r.created_at) : r \in feedback}
             \cup {TsSeconds(r.attempted_at) : r \in ip_attempts}

\* C10: a request between check_rate_limits and its last write holds the
\* store mutex, so no two requests are there at once; and for a threshold of
\* at least 1, no address ever has more than hard_limit_max feedback and
\* attempt rows with timestamps inside one trailing hour.
C10_LockKeepsCap ==
    /\ \A p \in Reqs : pc[p] # "idle" => lock = p
    /\ ip_rate_limit_max >= 1 =>
          \A ip \in PeerTexts, T \in WindowEnds :
              WindowCount(ip, T) <= ip_rate_limit_max

C10_Witness ==
    /\ ip_rate_limit_max >= 1
    /\ \E p \in Reqs, q \in Reqs :
          /\ p # q
          /\ pc[p] = "record"
          /\ pc[q] = "idle"
          /\ ~ENABLED Start(q)
          /\ WindowCount(conn_peer[p], NowSec) = ip_rate_limit_max

-----------------------------------------------------------------------------
\* the request of worker p has been allowed and its feedback row is written
Persists(p) == pc[p] = "insert" /\ pc'[p] = "record"

\* C11 as stated: in every execution, a submission that is allowed and
\* persisted has no earlier persisted submission of the same device token
\* less than 30 minutes before it.
C11_OnePerSoftWindow ==
    [][\A p \in Reqs :
          Persists(p) =>
              \A r \in allowed_log :
                  r.token = cookie_id[p] => NowSec - r.at >= SoftMs \div 1000]_vars

\* C11 amended: a submission that is allowed and persisted has no earlier
\* persisted submission of the same device token less than 30 minutes before
\* it, unless the record_submission call made for that earlier submission
\* failed (its error is logged and the request answered with success).
C11_OnePerSoftWindowWhenRecorded ==
    [][\A p \in Reqs :
          Persists(p) =>
              \A r \in allowed_log :
                  (r.token = cookie_id[p] /\ r.recorded)
                      => NowSec - r.at >= SoftMs \div 1000]_vars

C11_Witness ==
    \E p \in Reqs :
        /\ pc[p] = "record"
        /\ \E r \in allowed_log :
              /\ r.token = cookie_id[p]
              /\ r.recorded
              /\ NowSec - r.at >= SoftMs \div 1000
        /\ \E r \in allowed_log :
              r.token = cookie_id[p] /\ ~r.recorded /\ r.at = NowSec

\* the SubmissionRecords of a device token in a cookie_submissions table
RecordsOf(cs, c) == {r \in cs : r.cookie_id = c}

\* C12: no step leaves two SubmissionRecords for one device token; a
\* record_submission call that succeeds leaves exactly one row for its token,
\* stamped with the current second and never earlier than the row it found,
\* leaves the rows of the other tokens and their soft-limit status as they
\* were, and changes no address's hard-limit count.
C12_RecordSubmissionIdempotent ==
    [][/\ \A c \in Tokens : Cardinality(RecordsOf(cookie_submissions', c)) <= 1
       /\ \A p \in Reqs :
             (pc[p] = "record" /\ pc'[p] # "record" /\ write_ok'[p] = "ok") =>
                 /\ Cardinality(RecordsOf(cookie_submissions', cookie_id[p])) = 1
                 /\ \A r \in RecordsOf(cookie_submissions', cookie_id[p]) :
                       /\ TsSeconds(r.submitted_at) = NowSec
                       /\ \A old \in RecordsOf(cookie_submissions, cookie_id[p]) :
                             TsSeconds(old.submitted_at) <= TsSeconds(r.submitted_at)
                 /\ \A c \in Tokens \ {cookie_id[p]} :
                       /\ RecordsOf(cookie_submissions', c) = RecordsOf(cookie_submissions, c)
                       /\ HasSoftRecord(c)' = HasSoftRecord(c)
                 /\ \A a \in PeerTexts : HardLimitCount(a)' = HardLimitCount(a)]_vars

C12_Witness ==
    \E p \in Reqs :
        /\ pc[p] = "respond"
        /\ response[p].body = "success"
        /\ write_ok[p] = "ok"
        /\ \E r1 \in allowed_log, r2 \in allowed_log :
              /\ r1.token = cookie_id[p] /\ r2.token = cookie_id[p]
              /\ r1.recorded /\ r2.recorded
              /\ r1.at < r2.at /\ r2.at = NowSec
        /\ RecordsOf(cookie_submissions, cookie_id[p])
              = {[cookie_id |-> cookie_id[p], submitted_at |-> FormatTs(now)]}

\* the scenario's request carries no cookie the server set: a fresh device
FreshDevice == cookie_id'[Worker] \notin IssuedTokens

\* every request so far was a well-formed submission that added a counted row
AllCounted == served = next_id

StoredOne ==
    /\ decision'[Worker] = "None"
    /\ response'[Worker].body = "success"
    /\ Cardinality(feedback') = Cardinality(feedback) + 1
    /\ ip_attempts' = ip_attempts
    /\ \E r \in cookie_submissions' :
          r.cookie_id = cookie_id'[Worker] /\ TsSeconds(r.submitted_at) = NowSec

SoftBlockedOne ==
    /\ decision'[Worker] = "CookieSoftLimit"
    /\ response'[Worker].body = "rate_limited"
    /\ feedback' = feedback
    /\ cookie_submissions' = cookie_submissions
    /\ Cardinality(ip_attempts') = Cardinality(ip_attempts) + 1
    /\ \A r \in ip_attempts' \ ip_attempts : r.ip_address = ScenarioPeer.text

HardBlockedOne ==
    /\ decision'[Worker] = "IpHardLimit"
    /\ response'[Worker].body = "rate_limited_hard"
    /\ feedback' = feedback
    /\ cookie_submissions' = cookie_submissions
    /\ ip_attempts' = ip_attempts

\* C13 as stated: from an empty store with hard_limit_max = 10, the first
\* well-formed submission is allowed and stored, the second with the same
\* cookie is soft-blocked and adds one attempt row, each further rapid
\* submission with a fresh device token is soft-blocked and adds an attempt
\* row, and the request that finds ten counted rows is hard-blocked.
C13_ScenarioFreshTokensSoftBlocked ==
    [][(served' = served + 1 /\ AllCounted /\ response'[Worker].status # 400) =>
          /\ served = 0 => StoredOne
          /\ (served = 1 /\ ~FreshDevice) => SoftBlockedOne
          /\ (served >= 2 /\ served < DefaultIpRateLimitMax /\ FreshDevice)
                 => SoftBlockedOne
          /\ served >= DefaultIpRateLimitMax => HardBlockedOne]_vars

\* C13 amended: from an empty store with hard_limit_max = 10, the first
\* well-formed submission is allowed and stored, the second with the same
\* cookie is soft-blocked and adds one attempt row for the address, each
\* further rapid submission with a fresh device token is allowed and stored
\* (one more feedback row of the address), and the request that finds ten
\* counted rows of the address, the eleventh, is hard-blocked and records
\* nothing.
C13_ScenarioFreshTokensAllowed ==
    [][(served' = served + 1 /\ AllCounted /\ response'[Worker].status # 400) =>
          /\ served = 0 => StoredOne
          /\ (served = 1 /\ ~FreshDevice) => SoftBlockedOne
          /\ (served >= 2 /\ served < DefaultIpRateLimitMax /\ FreshDevice)
                 => StoredOne
          /\ served >= DefaultIpRateLimitMax => HardBlockedOne
          /\ HardLimitCount(ScenarioPeer.text) = served
          /\ decision'[Worker] = "IpHardLimit" <=> served = DefaultIpRateLimitMax]_vars

\* the eleventh request was hard-blocked after one stored submission, one
\* soft-blocked retry and eight stored submissions of fresh devices
C13_Witness ==
    /\ served = DefaultIpRateLimitMax + 1
    /\ decision[Worker] = "IpHardLimit"
    /\ Cardinality(feedback) = DefaultIpRateLimitMax - 1
    /\ Cardinality(ip_attempts) = 1
    /\ \E r \in ip_attempts : r.id = 1
    /\ Cardinality(IssuedTokens) = DefaultIpRateLimitMax - 1

Stores == <<feedback, cookie_submissions, ip_attempts>>

\* C14: when a query of check_rate_limits fails, the request goes straight to
\* its answer, the 500 "Database error" response without a cookie, and from
\* the check to the handler's return no feedback row, no SubmissionRecord and
\* no AttemptRecord is written; a request whose check failed is never in the
\* soft-block, insert or record step and never gets the success response.
C14_FailClosed ==
    [][\A p \in Reqs :
          /\ (pc[p] = "check" /\ decision'[p] = "Err") =>
                 /\ pc'[p] = "respond"
                 /\ response'[p] = [status |-> 500, body |-> "Database error",
                                     set_cookie |-> "", max_age |-> 0]
                 /\ Stores' = Stores
                 /\ allowed_log' = allowed_log
          /\ decision[p] = "Err" =>
                 /\ pc[p] = "respond"
                 /\ response[p].status = 500
                 /\ response[p].set_cookie = ""
                 /\ pc'[p] # pc[p] => (pc'[p] = "idle" /\ Stores' = Stores)]_vars

\* a request whose check failed is about to return, on a store that holds
\* rows, for a token that would have been soft-blocked
C14_Witness ==
    \E p \in Reqs :
        /\ decision[p] = "Err"
        /\ pc[p] = "respond"
        /\ response[p].body = "Database error"
        /\ feedback # {}
        /\ HasSoftRecord(cookie_id[p])

\* C15: when record_submission fails after the feedback row was written, the
\* request still gets the 200 success response with its device-token cookie
\* and the feedback row stays; when record_ip_attempt fails on a soft-blocked
\* request, the request still gets the soft-block response; the failed call
\* changes no table, and the answer is returned without a further write.
C15_RecordCallsFailOpen ==
    [][\A p \in Reqs :
          /\ (pc[p] = "record" /\ pc'[p] # "record" /\ write_ok'[p] = "err") =>
                 /\ pc'[p] = "respond"
                 /\ response'[p] = [status |-> 200, body |-> "success",
                                     set_cookie |-> cookie_id[p],
                                     max_age |-> CookieMaxAge]
                 /\ cookie_id[p] # ""
                 /\ \E r \in feedback' :
                       /\ r.ip_address = peer_ip[p]
                       /\ TsSeconds(r.created_at) = NowSec
                       /\ r.id = next_id - 1
                 /\ Stores' = Stores
          /\ (pc[p] = "soft" /\ pc'[p] # "soft" /\ write_ok'[p] = "err") =>
                 /\ pc'[p] = "respond"
                 /\ response'[p] = [status |-> 200, body |-> "rate_limited",
                                     set_cookie |-> "", max_age |-> 0]
                 /\ Stores' = Stores
          /\ (pc[p] = "respond" /\ pc'[p] # "respond"
                  /\ response[p].body \in {"success", "rate_limited"}) =>
                 /\ pc'[p] = "idle"
                 /\ Stores' = Stores]_vars

\* a request whose record_submission call failed is about to return success
C15_Witness ==
    \E p \in Reqs :
        /\ pc[p] = "respond"
        /\ write_ok[p] = "err"
        /\ response[p].body = "success"
        /\ response[p].set_cookie = cookie_id[p]
        /\ \A r \in cookie_submissions : r.cookie_id # cookie_id[p]
        /\ \E r \in feedback : r.ip_address = peer_ip[p]

\* a soft-blocked request whose record_ip_attempt call failed is about to
\* return the soft-block page
C15_WitnessAttempt ==
    \E p \in Reqs :
        /\ pc[p] = "respond"
        /\ write_ok[p] = "err"
        /\ response[p].body = "rate_limited"
        /\ ip_attempts = {}

\* a rating outside 1..5, or a server name on a non-anonymous form that is
\* over-long or not a known server
Malformed(form) ==
    \/ \E i \in 1..5 : form.ratings[i] < 1 \/ form.ratings[i] > 5
    \/ /\ ~form.is_anonymous
       /\ form.server.some
       /\ form.server.len > 0
       /\ (form.server.len > MAX_SERVER \/ ~form.server.listed)

\* the step is submit_feedback run on a malformed form
MalformedSubmit ==
    \E cookie \in JarTokens \cup {NewToken(Cardinality(IssuedTokens) + 1)},
       form \in ScenarioForms :
           Malformed(form) /\ SubmitFeedback(cookie, form, 0, TRUE, TRUE)

\* C16 as stated: a submit request with a malformed form gets a client-error
\* response and adds no row to feedback, cookie_submissions or ip_attempts,
\* whatever the rate-limit state of its address and device token.
C16_MalformedNeverCounted ==
    [][(served' = served + 1 /\ MalformedSubmit) =>
          /\ response'[Worker].status = 400
          /\ Stores' = Stores]_vars

\* C16 amended: a submit request with a malformed form that the rate check
\* allows gets the 400 response without a cookie and adds no row to any of
\* the three tables; validation runs after the rate check, so a malformed
\* request of a soft-limited device token gets the soft-block response and
\* adds its one ip_attempts row, and one of a hard-limited address gets the
\* hard-block response and adds nothing.
C16_MalformedAllowedNeverCounted ==
    [][(served' = served + 1 /\ MalformedSubmit) =>
          /\ decision'[Worker] = "None" =>
                 /\ response'[Worker].status = 400
                 /\ response'[Worker].body \in {"Invalid rating value", "Invalid server name"}
                 /\ response'[Worker].set_cookie = ""
                 /\ Stores' = Stores
                 /\ allowed_log' = allowed_log
          /\ decision'[Worker] = "CookieSoftLimit" => SoftBlockedOne
          /\ decision'[Worker] = "IpHardLimit" => HardBlockedOne
          /\ decision'[Worker] \in {"None", "CookieSoftLimit", "IpHardLimit"}]_vars

\* a malformed form of a fresh device was answered 400 on a store that holds
\* rows of the address, under the hard limit
C16_Witness ==
    /\ response[Worker].status = 400
    /\ decision[Worker] = "None"
    /\ response[Worker].body = "Invalid server name"
    /\ feedback # {}
    /\ ip_attempts # {}

\* C17: a request decided IpHardLimit gets the hard-block response without a
\* cookie, and from its check to the handler's return the three tables stay
\* as they were, so no address's hard-limit count rises; a hard-blocked
\* request is never in the soft-block, insert or record step.
C17_HardBlockedRecordsNothing ==
    [][\A p \in Reqs :
          /\ (pc[p] = "check" /\ decision'[p] = "IpHardLimit") =>
                 /\ pc'[p] = "respond"
                 /\ response'[p] = [status |-> 200, body |-> "rate_limited_hard",
                                     set_cookie |-> "", max_age |-> 0]
                 /\ Stores' = Stores
                 /\ \A ip \in PeerTexts : HardLimitCount(ip)' = HardLimitCount(ip)
          /\ decision[p] = "IpHardLimit" =>
                 /\ pc[p] = "respond"
                 /\ response[p].set_cookie = ""
                 /\ pc'[p] # pc[p] =>
                        /\ pc'[p] = "idle"
                        /\ Stores' = Stores
                        /\ \A ip \in PeerTexts : HardLimitCount(ip)' = HardLimitCount(ip)]_vars

\* a hard-blocked request that came with a cookie the server had set is about
\* to return, its address exactly at a limit of at least 1
C17_Witness ==
    \E p \in Reqs :
        /\ decision[p] = "IpHardLimit"
        /\ pc[p] = "respond"
        /\ ip_rate_limit_max >= 1
        /\ HardLimitCount(peer_ip[p]) = ip_rate_limit_max
        /\ response[p].body = "rate_limited_hard"
        /\ cookie_id[p] \in IssuedTokens

\* a step of submit_feedback, of whichever request
SubmitStep ==
    \E p \in Reqs :
        Start(p) \/ Check(p) \/ SoftBlock(p) \/ Insert(p) \/ Record(p) \/ Respond(p)

\* the hours that end at the current second or at a row's second, before or
\* after the step
FixedWindows == WindowEnds \cup WindowEnds'

\* C18 as stated: for every address and every fixed hour, the number of
\* feedback and attempt rows of the address with timestamps in that hour is
\* not lowered by any step of submit, of the admin panel or of the admin
\* delete.
C18_WindowSumNeverLowered ==
    [][(SubmitStep \/ AdminPanel \/ DeleteFeedback) =>
          \A ip \in PeerTexts, T \in FixedWindows :
              WindowCount(ip, T)' >= WindowCount(ip, T)]_vars

\* C18 amended: for every address and every fixed hour, that number is not
\* lowered by any step of submit or of the admin panel; an admin delete
\* lowers it by at most one, for the address of the row it deletes, and
\* touches no attempt row.  (A step that leaves both tables as they are
\* leaves every sum as it is.)
C18_WindowSumLoweredOnlyByDelete ==
    [][(feedback' # feedback \/ ip_attempts' # ip_attempts) =>
          /\ (SubmitStep \/ AdminPanel) =>
                \A ip \in PeerTexts, T \in FixedWindows :
                    WindowCount(ip, T)' >= WindowCount(ip, T)
          /\ DeleteFeedback =>
                /\ ip_attempts' = ip_attempts
                /\ feedback' \subseteq feedback
                /\ Cardinality(feedback \ feedback') <= 1
                /\ \A ip \in PeerTexts, T \in FixedWindows :
                      /\ WindowCount(ip, T)' >= WindowCount(ip, T) - 1
                      /\ WindowCount(ip, T)' < WindowCount(ip, T) =>
                             \E r \in feedback \ feedback' : r.ip_address = ip]_vars

\* an address has one counted row in the current hour, an attempt, and the
\* submission of that hour that came before it was deleted
C18_Witness ==
    \E ip \in PeerTexts :
        /\ WindowCount(ip, NowSec) = 1
        /\ \E e \in events :
              /\ e.kind = "submission"
              /\ e.addr = ip
              /\ NowSec - e.at < HourMs \div 1000
              /\ \A r \in feedback : r.id # e.id
              /\ \E r \in ip_attempts : r.ip_address = ip /\ r.id > e.id

AttemptIds(att) == {r.id : r \in att}

\* C19: a record_ip_attempt call that succeeds adds exactly one row, with an
\* id no row had, stamped with the current second, and keeps every row that
\* was there, so the rows of an address accumulate; no step changes a row;
\* and a row disappears only in the clean-up of init_database, which removes
\* only rows more than one hour old.
C19_AttemptsAppendOnly ==
    [][/\ \A p \in Reqs :
             (pc[p] = "soft" /\ pc'[p] # "soft" /\ write_ok'[p] = "ok") =>
                 /\ ip_attempts \subseteq ip_attempts'
                 /\ Cardinality(ip_attempts') = Cardinality(ip_attempts) + 1
                 /\ \A r \in ip_attempts' \ ip_attempts :
                       /\ r.id \notin AttemptIds(ip_attempts)
                       /\ r.ip_address = peer_ip[p]
                       /\ TsSeconds(r.attempted_at) = NowSec
       /\ \A r \in ip_attempts, r2 \in ip_attempts' : r.id = r2.id => r = r2
       /\ \A r \in ip_attempts \ ip_attempts' :
             /\ InitDatabase
             /\ AgeSec(r.attempted_at) > HourMs \div 1000]_vars

\* a soft-blocked request has just added the second attempt row of its address
C19_Witness ==
    /\ \E r1 \in ip_attempts, r2 \in ip_attempts :
          r1.ip_address = r2.ip_address /\ r1.id # r2.id
    /\ \E p \in Reqs : pc[p] = "respond" /\ response[p].body = "rate_limited"
                           /\ write_ok[p] = "ok"

\* an attempt recorded more than an hour ago has been removed by the clean-up
C19_WitnessSwept ==
    \E e \in events :
        /\ e.kind = "attempt"
        /\ NowSec - e.at > HourMs \div 1000
        /\ \A r \in ip_attempts : r.id # e.id

OldAttempts(att) == {r \in att : AgeSec(r.attempted_at) > HourMs \div 1000}
OldCookies(cs) == {r \in cs : AgeSec(r.submitted_at) > HourMs \div 1000}

\* C20 as stated: when init_database has returned, no cookie_submissions row
\* and no ip_attempts row with a timestamp more than one hour old remains,
\* and every row of the two tables with a timestamp within the hour is still
\* there.
C20_NoOldRecordAfterInit ==
    [][(~db_open /\ db_open') =>
          /\ OldAttempts(ip_attempts') = {}
          /\ OldCookies(cookie_submissions') = {}
          /\ ip_attempts \ OldAttempts(ip_attempts) \subseteq ip_attempts'
          /\ cookie_submissions \ OldCookies(cookie_submissions)
                 \subseteq cookie_submissions']_vars

\* C20 amended: init_database leaves in each of the two tables either all
\* the rows it found (its DELETE failed, which it ignores) or exactly the
\* rows whose timestamp is at most one hour, in whole seconds, before the
\* start; in both cases every row with such a timestamp is still there, no
\* row is added or changed, and the feedback table is as it was.
C20_SweepWhenDeleteSucceeds ==
    [][(~db_open /\ db_open') =>
          /\ \/ ip_attempts' = ip_attempts
             \/ ip_attempts' = ip_attempts \ OldAttempts(ip_attempts)
          /\ \/ cookie_submissions' = cookie_submissions
             \/ cookie_submissions' = cookie_submissions \ OldCookies(cookie_submissions)
          /\ feedback' = feedback
          /\ now' = now]_vars

\* the start-up has removed the first attempt row and kept the second, which
\* is exactly one hour old, and the one SubmissionRecord left is exactly one
\* hour old too
C20_Witness ==
    /\ db_open
    /\ OldAttempts(ip_attempts) = {}
    /\ OldCookies(cookie_submissions) = {}
    /\ \E r \in ip_attempts : r.id = 2 /\ AgeSec(r.attempted_at) = HourMs \div 1000
    /\ \A r \in ip_attempts : r.id # 1
    /\ \E r \in cookie_submissions : AgeSec(r.submitted_at) = HourMs \div 1000
    /\ Cardinality(cookie_submissions) = 1

\* the header holds text whose first comma-separated token is not blank
Usable(h) == h.kind = "text" /\ Trim(SplitFirst(h.text)) # <<>>

\* C21: for a connection-origin address in the trusted-proxy list the display
\* address is the first comma-separated token of X-Forwarded-For when that
\* header is present and usable, otherwise the X-Real-IP value when present
\* and usable, otherwise the connection-origin address; an absent, non-text
\* or empty header falls through to the next choice, so the display address
\* is never empty.
C21_HeaderFallback ==
    (out_ip # <<>> /\ InPeerIsProxy) =>
        /\ out_ip[1] = InPeerText
        /\ out_ip[2] = IF Usable(in_xff) THEN Trim(SplitFirst(in_xff.text))
                       ELSE IF Usable(in_xri) THEN Trim(in_xri.text)
                       ELSE InPeerText
        /\ out_ip[2] # <<>>

\* C22: an allowed request is validated, then its feedback row is inserted
\* with the connection-origin address, then record_submission runs, then the
\* success response with the device-token cookie (Max-Age 3600) is built;
\* record_submission runs and the cookie is set only after the row was
\* inserted; a rejected form writes nothing; and a failed INSERT writes no
\* SubmissionRecord, sets no cookie and is answered with a server error.
C22_AllowedPathOrder ==
    [][\A p \in Reqs :
          /\ pc'[p] = "insert" => (pc[p] = "check" /\ decision'[p] = "None")
          /\ (pc[p] = "insert" /\ pc'[p] # "insert") =>
                 /\ cookie_submissions' = cookie_submissions
                 /\ ip_attempts' = ip_attempts
                 /\ pc'[p] \in {"record", "respond"}
                 /\ pc'[p] = "record" =>
                        /\ write_ok'[p] = "ok"
                        /\ Cardinality(feedback') = Cardinality(feedback) + 1
                        /\ \A r \in feedback' \ feedback :
                              /\ r.ip_address = conn_peer[p]
                              /\ TsSeconds(r.created_at) = NowSec
                        /\ response'[p] = NoResponse
                 /\ pc'[p] = "respond" =>
                        /\ feedback' = feedback
                        /\ response'[p].set_cookie = ""
                        /\ response'[p].status \in {400, 500}
                        /\ write_ok'[p] = "err" =>
                               response'[p] = [status |-> 500,
                                               body |-> "Failed to save feedback",
                                               set_cookie |-> "", max_age |-> 0]
          /\ pc'[p] = "record" =>
                 \E r \in feedback' : r.id = next_id' - 1 /\ r.ip_address = conn_peer'[p]
          /\ (pc[p] = "record" /\ pc'[p] # "record") =>
                 /\ pc'[p] = "respond"
                 /\ feedback' = feedback
                 /\ response'[p] = [status |-> 200, body |-> "success",
                                     set_cookie |-> cookie_id[p],
                                     max_age |-> CookieMaxAge]
          /\ (response'[p].set_cookie # "" /\ response[p].set_cookie = "") =>
                 pc[p] = "record"
          /\ (pc[p] # "idle" /\ pc'[p] # pc[p]) =>
                 \A r \in cookie_submissions' \ cookie_submissions :
                     pc[p] = "record" /\ r.cookie_id = cookie_id[p]]_vars

\* an allowed request has its row, its SubmissionRecord and its cookie
C22_Witness ==
    \E p \in Reqs :
        /\ pc[p] = "respond"
        /\ decision[p] = "None"
        /\ response[p].set_cookie = cookie_id[p]
        /\ response[p].max_age = CookieMaxAge
        /\ \E r \in feedback : r.id = next_id - 1 /\ r.ip_address = conn_peer[p]
        /\ \E r \in cookie_submissions :
              r.cookie_id = cookie_id[p] /\ TsSeconds(r.submitted_at) = NowSec
        /\ display_ip[p] # conn_peer[p]

\* an allowed request whose INSERT failed is about to return the server error
C22_WitnessInsertFailed ==
    \E p \in Reqs :
        /\ pc[p] = "respond"
        /\ decision[p] = "None"
        /\ write_ok[p] = "err"
        /\ response[p].body = "Failed to save feedback"
        /\ \A r \in cookie_submissions : r.cookie_id # cookie_id[p]

\* C23: a check_rate_limits call leaves the three tables as they were,
\* whatever it returns; what it returns is determined by the rows the store
\* holds at the call, not by the decision of an earlier request; and a second
\* call with the same arguments right after it returns the same.
C23_EvaluatePureRead ==
    [][\A p \in Reqs :
          (pc[p] = "check" /\ pc'[p] # "check") =>
              /\ Stores' = Stores
              /\ now' = now
              /\ decision'[p] \in {"IpHardLimit", "CookieSoftLimit", "None", "Err"}
              /\ decision'[p] = "IpHardLimit" =>
                     HardLimitCount(conn_peer[p]) >= ip_rate_limit_max
              /\ decision'[p] = "CookieSoftLimit" =>
                     /\ HardLimitCount(conn_peer[p]) < ip_rate_limit_max
                     /\ HasSoftRecord(cookie_id[p])
              /\ decision'[p] = "None" =>
                     /\ HardLimitCount(conn_peer[p]) < ip_rate_limit_max
                     /\ ~HasSoftRecord(cookie_id[p])
              /\ \A f \in 0..3 :
                     CheckRateLimits(feedback', ip_attempts', cookie_submissions', now',
                                     conn_peer[p], cookie_id[p], ip_rate_limit_max, f)
                       = CheckRateLimits(feedback, ip_attempts, cookie_submissions, now,
                                         conn_peer[p], cookie_id[p], ip_rate_limit_max, f)]_vars

\* a request is soft-blocked whose device token and address were allowed,
\* under the same threshold, by the request before it
C23_Witness ==
    \E p \in Reqs :
        /\ decision[p] = "CookieSoftLimit"
        /\ pc[p] = "soft"
        /\ \E r \in allowed_log : r.token = cookie_id[p] /\ r.recorded
        /\ \E e \in events : e.kind = "submission" /\ e.addr = conn_peer[p]
                                  /\ e.id = next_id - 1

TaskIds(ns) == {n.id : n \in ns}

\* C24: a notification task is spawned only by the step that inserted the
\* feedback row it reports, one task for that row; the end of a task, with
\* either result, changes no table, no response, no request's position and
\* not the mutex; an allowed request gets the success response whatever the
\* tasks do; and a request that is ready to record or to return can do so
\* while tasks are still running.
C24_NotificationIsolated ==
    [][/\ \A id \in TaskIds(notifications') \ TaskIds(notifications) :
             \E p \in Reqs :
                 /\ pc[p] = "insert" /\ pc'[p] = "record"
                 /\ write_ok'[p] = "ok"
                 /\ id = next_id
                 /\ \E r \in feedback' \ feedback : r.id = id
                 /\ TaskIds(notifications') = TaskIds(notifications) \cup {id}
       /\ (\E p \in Reqs : pc[p] = "insert" /\ pc'[p] = "record") =>
             TaskIds(notifications') # TaskIds(notifications)
       /\ notifications' # notifications /\ TaskIds(notifications') = TaskIds(notifications) =>
             /\ Stores' = Stores
             /\ response' = response
             /\ pc' = pc
             /\ lock' = lock
       /\ \A p \in Reqs :
             /\ (pc[p] = "record" /\ pc'[p] # "record") =>
                    /\ response'[p].status = 200
                    /\ response'[p].body = "success"
                    /\ notifications' = notifications
             /\ pc[p] = "record" => ENABLED Record(p)
             /\ pc[p] = "respond" => ENABLED Respond(p)
             /\ (pc[p] = "respond" /\ pc'[p] = "idle") => lock' = Free]_vars

\* a request has returned and the mutex is free while its notification task
\* is still running, and the task of an earlier request has failed
C24_Witness ==
    /\ lock = Free
    /\ \A p \in Reqs : pc[p] = "idle"
    /\ \E n \in notifications : n.state = "running"
    /\ \E n \in notifications : n.state = "failed"
    /\ \A n \in notifications : \E r \in feedback : r.id = n.id

\* the seconds at which the counted events of an address were recorded
RowTimes(ip) ==
    {TsSeconds(r.created_at) : r \in {x \in feedback : x.ip_address = ip}}
        \cup {TsSeconds(r.attempted_at) : r \in {x \in ip_attempts : x.ip_address = ip}}

\* a request of the address made now would be answered IpHardLimit
HardBlockedNow(ip) ==
    CheckRateLimits(feedback, ip_attempts, cookie_submissions, now, ip, FirstToken,
                    ip_rate_limit_max, 0) = "IpHardLimit"

\* the most recent counted event of the address is an hour old or older
HourPassed(ip) ==
    /\ RowTimes(ip) # {}
    /\ \A t \in RowTimes(ip) : NowSec - t >= HourMs \div 1000

\* C25 as stated: an address whose most recent counted event is one hour old
\* or older is not hard-blocked, whatever the threshold.
C25_HardBlockExpires ==
    HourPassed(ScenarioPeer.text) => ~HardBlockedNow(ScenarioPeer.text)

\* C25: with a threshold of at least 1, a request answered IpHardLimit writes
\* no row, so the times of the address's counted events stay as they were
\* however many requests it sends; an address that is hard-blocked has a
\* counted event less than an hour old, and once its most recent counted
\* event is an hour old it is not hard-blocked.
C25_HardBlockExpiresPositive ==
    [][ip_rate_limit_max >= 1 =>
          /\ (served' # served /\ decision'[Worker] = "IpHardLimit") =>
                /\ HardBlockedNow(ScenarioPeer.text)
                /\ response'[Worker].body = "rate_limited_hard"
                /\ Stores' = Stores
                /\ RowTimes(ScenarioPeer.text)' = RowTimes(ScenarioPeer.text)
          /\ HardBlockedNow(ScenarioPeer.text) =>
                \E t \in RowTimes(ScenarioPeer.text) : NowSec - t < HourMs \div 1000
          /\ HourPassed(ScenarioPeer.text)' => ~HardBlockedNow(ScenarioPeer.text)']_vars

\* the address was hard-blocked by a row an earlier run left, every request it
\* sent since was refused and recorded nothing, and now that the row is an
\* hour old the address is no longer hard-blocked
C25_Witness ==
    /\ ip_rate_limit_max >= 1
    /\ served >= 2
    /\ response[Worker].body = "rate_limited_hard"
    /\ feedback = {}
    /\ Cardinality(ip_attempts) = next_id
    /\ HourPassed(ScenarioPeer.text)
    /\ ~HardBlockedNow(ScenarioPeer.text)

\* what check_rate_limits answers now for the retrying client with token c
DecisionNow(c) ==
    CheckRateLimits(feedback, ip_attempts, cookie_submissions, now, ScenarioPeer.text, c,
                    ip_rate_limit_max, 0)

\* the last allowed submission made with token c lies 30 minutes or more back
SoftWindowOver(c) ==
    /\ \E a \in allowed_log : a.token = c
    /\ \A a \in allowed_log : a.token = c => NowSec - a.at >= SoftMs \div 1000

C26_WitnessHardBlocked ==
    \E a \in allowed_log :
        /\ SoftWindowOver(a.token)
        /\ Cardinality({r \in ip_attempts : TsSeconds(r.attempted_at) >= a.at}) >= 1
        /\ feedback # {} /\ Cardinality(feedback) = 1
        /\ DecisionNow(a.token) = "IpHardLimit"
        /\ ip_rate_limit_max = 2

\* C27: a request without a feedback_session cookie is checked with a new
\* token, which has no SubmissionRecord; it is never answered CookieSoftLimit:
\* it is answered IpHardLimit exactly when the address's count has reached the
\* threshold and None otherwise; and when it is stored (the success response,
\* which sets the new token as the cookie) the address's count rises by one.
C27_NoCookieNeverSoftBlocked ==
    [][(served' # served /\ FreshDevice) =>
          /\ ~\E r \in cookie_submissions : r.cookie_id = cookie_id'[Worker]
          /\ decision'[Worker] \in {"None", "IpHardLimit"}
          /\ decision'[Worker] = "IpHardLimit" <=>
                HardLimitCount(ScenarioPeer.text) >= ip_rate_limit_max
          /\ decision'[Worker] = "IpHardLimit" =>
                response'[Worker].body = "rate_limited_hard"
          /\ response'[Worker].body = "success" =>
                /\ response'[Worker].set_cookie = cookie_id'[Worker]
                /\ HardLimitCount(ScenarioPeer.text)' = HardLimitCount(ScenarioPeer.text) + 1]_vars

\* a client that dropped its cookie was allowed twice within the same second
\* under two tokens, and its third request, again without a cookie, was
\* refused by the hard limit of 2
C27_Witness ==
    /\ ip_rate_limit_max = 2
    /\ \E a \in allowed_log, b \in allowed_log : a.token # b.token /\ a.at = b.at
    /\ Cardinality(feedback) = 2
    /\ ip_attempts = {}
    /\ cookie_id[Worker] \notin IssuedTokens
    /\ decision[Worker] = "IpHardLimit"
    /\ response[Worker].body = "rate_limited_hard"

\* the thresholds, addresses and tokens check_rate_limits is asked about
SweepLimits == 0..(MaxRows + 2)
SweepAddresses == PeerTexts
SweepTokens == Tokens

\* C28: for every address, token and threshold, and for every query that may
\* fail, check_rate_limits gives the same answer on the tables init_database
\* found and on the tables it left, at the time of the start-up.
C28_SweepKeepsDecision ==
    [][(~db_open /\ db_open') =>
          \A ip \in SweepAddresses, c \in SweepTokens, lim \in SweepLimits, f \in 0..3 :
              CheckRateLimits(feedback', ip_attempts', cookie_submissions', now', ip, c, lim, f)
                  = CheckRateLimits(feedback, ip_attempts, cookie_submissions, now, ip, c, lim, f)]_vars

\* the start-up has removed an attempt row and a SubmissionRecord was left;
\* on the tables that remain one token is soft-blocked and, with a threshold
\* of 2, the address is hard-blocked
C28_Witness ==
    /\ db_open
    /\ \E r \in ip_attempts : r.id = 2
    /\ \A r \in ip_attempts : r.id # 1
    /\ \E c \in SweepTokens :
          CheckRateLimits(feedback, ip_attempts, cookie_submissions, now, <<"a">>, c,
                          MaxRows + 2, 0) = "CookieSoftLimit"
    /\ \E c \in SweepTokens :
          CheckRateLimits(feedback, ip_attempts, cookie_submissions, now, <<"a">>, c,
                          2, 0) = "IpHardLimit"

\* C29: while is_default_admin_password is set no step removes a feedback
\* row, whatever password the admin request presents, and admin_panel
\* answers no request with a page that lists rows.
C29_DefaultPasswordLocksAdmin ==
    [][is_default_admin_password =>
          /\ feedback \subseteq feedback'
          /\ \A pass \in Passwords \cup {""}, ok \in BOOLEAN :
                AdminPanelPage(pass, admin_password, is_default_admin_password,
                               feedback, ok).rows = {}]_vars

TypeOK ==
    /\ is_default_admin_password \in BOOLEAN
    /\ lock \in {Free} \cup Reqs
    /\ \A p \in Reqs : pc[p] \in {"idle", "check", "soft", "insert", "record", "respond"}

====
